---- MODULE Spec2Model ----
(***************************************************************************)
(* Passport export pipeline of security-passport (apps/api).               *)
(*                                                                         *)
(* The relational store is a set of rows per table, the pack assembler     *)
(* (_build_pack_via_db) is an operator over the store and over the order   *)
(* in which the store hands back the rows of a query without ORDER BY.     *)
(*                                                                         *)
(* Encoding of Python values:                                              *)
(*   ids (uuid)          positive integers, NoId (0) for NULL              *)
(*   str(uuid)           Str(id), a wrapper distinct from the id itself    *)
(*   nullable strings    strings, None ("None") for NULL                   *)
(*   dict                a function whose DOMAIN is the set of keys        *)
(*   list                a sequence                                        *)
(***************************************************************************)
EXTENDS Integers, Sequences, FiniteSets, TLC

\* ------------------------------------------------------------------ bounds
MaxAnswers == 2
MaxEvidence == 2
MaxLinks == 2
MaxTime == 2

\* ------------------------------------------------------------ value basics
NoId == 0
None == "None"
Tenants == {"T1", "T2"}
Times == 1..MaxTime

Str(x) == [str |-> x]
IsoFormat(t) == [iso |-> t]

\* text is a sequence of one-character strings; NoneChars stands for a NULL text
NoneChars == <<None>>
Digits == <<"1", "2", "3", "4", "5", "6", "7", "8", "9">>
Digit(n) == Digits[n]
\* the characters of the text of an id
IdChars(s) == <<Digit(s.str)>>

Range(s) == {s[i] : i \in DOMAIN s}

\* every order in which a scan of the row set S can hand back its rows
Orderings(S) ==
    {f \in [1..Cardinality(S) -> S] : \A i, j \in 1..Cardinality(S) : i /= j => f[i] /= f[j]}

\* ------------------------------------------------------------------- state
VARIABLES
    tables,           \* names of the tables that exist (insp.get_table_names())
    holder,           \* per concept, the table that holds the rows below
    templates,        \* rows of the template table
    questions,        \* rows of the question table
    answers,          \* rows of the answer table
    answer_columns,   \* columns of the answer table (a.c)
    links,            \* rows of the answer-evidence link table
    evidence_items,   \* rows of evidence_items
    tenant_overrides, \* rows of tenant_overrides
    audit_events,     \* rows of audit_events
    objects,          \* keys of the objects in the S3 bucket
    clock,            \* readings of datetime.utcnow() taken so far
    call,             \* last call of _build_pack_via_db: arguments and result
    pc,               \* position of the export request: "idle", "loop", "done"
    req,              \* the export request: kind, tenant, template code
    heap,             \* the dict and list objects of the request, by address
    refs,             \* addresses of the pack as built and as exported
    built,            \* the value of the pack when _build_pack_via_db returned it
    archive,          \* entries written to the ZipFile so far, in order
    failures,         \* the list failures
    downloaded,       \* the counter downloaded
    idx,              \* position of the loop over evidence_items (1-based)
    io,               \* renders, archive opens and outbound requests made so far
    response,         \* what the request returned to the client
    naming,           \* an application of _safe_zip_name: arguments and result
    writers,          \* the override-writing requests: position, arguments, what each read
    api               \* last call of attach_evidence or upload_file: arguments and response

dataVars ==
    <<tables, holder, templates, questions, answers, answer_columns, links, evidence_items,
      tenant_overrides, objects>>
storeVars == <<dataVars, audit_events>>
exportVars == <<pc, req, heap, refs, built, archive, failures, downloaded, idx, io, response>>
apiVars == <<writers, api>>
vars == <<storeVars, clock, call, exportVars, naming, apiVars>>

\* ---------------------------------------------------------- schema resolver
TemplateCandidates == <<"questionnaire_templates", "questionnaires_templates", "questionnaire_template">>
QuestionCandidates == <<"questionnaire_questions", "questionnaires_questions", "questionnaire_question">>
AnswerCandidates ==
    <<"tenant_answers", "questionnaire_answers", "questionnaire_answer",
      "questionnaire_question_answers", "questionnaire_responses">>
LinkCandidates ==
    <<"tenant_answer_evidence", "questionnaire_answer_evidence", "questionnaire_answer_evidences",
      "questionnaire_answers_evidence", "questionnaire_answers_evidences",
      "questionnaire_answer_evidence_links">>

\* mutant of pick_table: the last candidate present
pick_table_last(candidates, existing) ==
    LET hits == {i \in DOMAIN candidates : candidates[i] \in existing}
    IN IF hits = {}
       THEN [ok |-> FALSE, error |-> "RuntimeError", candidates |-> candidates, existing |-> existing]
       ELSE [ok |-> TRUE, name |-> candidates[CHOOSE i \in hits : \A j \in hits : j <= i]]

\* index of the first candidate that exists, 0 when none does
FirstPresent(candidates, existing) ==
    LET hits == {i \in DOMAIN candidates : candidates[i] \in existing}
    IN IF hits = {} THEN 0 ELSE CHOOSE i \in hits : \A j \in hits : i <= j

\* pick_table: the first candidate present, or RuntimeError naming candidates and existing
pick_table(candidates, existing) ==
    LET i == FirstPresent(candidates, existing)
    IN IF i = 0
       THEN [ok |-> FALSE, error |-> "RuntimeError", candidates |-> candidates, existing |-> existing]
       ELSE [ok |-> TRUE, name |-> candidates[i]]

\* ae_name: the first link candidate present, None when the link table is missing
ae_name(existing) ==
    LET i == FirstPresent(LinkCandidates, existing)
    IN IF i = 0 THEN None ELSE LinkCandidates[i]

\* mutant of resolve_tables: the link table resolved through pick_table like the others
resolve_tables_link_required(existing) ==
    LET t == pick_table(TemplateCandidates, existing)
        q == pick_table(QuestionCandidates, existing)
        a == pick_table(AnswerCandidates, existing)
        l == pick_table(LinkCandidates, existing)
    IN IF ~t.ok THEN t
       ELSE IF ~q.ok THEN q
       ELSE IF ~a.ok THEN a
       ELSE IF ~l.ok THEN l
       ELSE [ok |-> TRUE, t |-> t, q |-> q, a |-> a, ae |-> l.name]

\* lines 45-79 of _build_pack_via_db: the three required tables through pick_table, in
\* order, the first failure ending the call; the link table optional
resolve_tables(existing) ==
    LET t == pick_table(TemplateCandidates, existing)
        q == pick_table(QuestionCandidates, existing)
        a == pick_table(AnswerCandidates, existing)
    IN IF ~t.ok THEN t
       ELSE IF ~q.ok THEN q
       ELSE IF ~a.ok THEN a
       ELSE [ok |-> TRUE, t |-> t, q |-> q, a |-> a, ae |-> ae_name(existing)]

\* rows of the table called name: the holder of the concept has them, any other
\* table of that concept that exists is empty
RowsOf(name, concept, rows, hold) == IF hold[concept] = name THEN rows ELSE {}

\* ------------------------------------------------------------ store values
Store ==
    [tables |-> tables, holder |-> holder, templates |-> templates, questions |-> questions,
     answers |-> answers, answer_columns |-> answer_columns, links |-> links,
     evidence_items |-> evidence_items, tenant_overrides |-> tenant_overrides]

NoKey == 0

\* mutant of SortByKey: ORDER BY key DESC
RECURSIVE SortByKeyDesc(_)
SortByKeyDesc(S) ==
    IF S = {} THEN <<>>
    ELSE LET r == CHOOSE x \in S : \A y \in S : x.key >= y.key
         IN <<r>> \o SortByKeyDesc(S \ {r})

\* ORDER BY key ASC over a set of question rows
RECURSIVE SortByKey(_)
SortByKey(S) ==
    IF S = {} THEN <<>>
    ELSE LET r == CHOOSE x \in S : \A y \in S : x.key <= y.key
         IN <<r>> \o SortByKey(S \ {r})

\* the last row of the sequence rows that satisfies Test (a dict assignment in a loop: last wins)
LastWhere(rows, Test(_)) ==
    LET hits == {i \in DOMAIN rows : Test(rows[i])}
    IN rows[CHOOSE i \in hits : \A j \in hits : j <= i]

MapSeq(s, F(_)) == [i \in DOMAIN s |-> F(s[i])]

\* by_qid: question_id -> answer row, for rows that have a non-null question_id
by_qid(answers_rows, acols) ==
    LET keyed == {i \in DOMAIN answers_rows :
                    "question_id" \in acols /\ answers_rows[i].question_id /= NoId}
    IN [k \in {answers_rows[i].question_id : i \in keyed} |->
            LET IsK(r) == "question_id" \in acols /\ r.question_id = k
            IN LastWhere(answers_rows, IsK)]

\* by_key: question_key -> answer row, for rows that have a non-empty question_key
by_key(answers_rows, acols) ==
    LET keyed == {i \in DOMAIN answers_rows :
                    "question_key" \in acols /\ answers_rows[i].question_key /= NoKey}
    IN [k \in {answers_rows[i].question_key : i \in keyed} |->
            LET IsK(r) == "question_key" \in acols /\ r.question_key = k
            IN LastWhere(answers_rows, IsK)]

\* ev_ids_by_answer.get(answer_id, []): evidence ids of the link rows of the answer, in row order
ev_ids_by_answer(link_rows, answer_id) ==
    LET IsA(lr) == lr.answer_id = answer_id
        Ev(lr) == lr.evidence_id
    IN MapSeq(SelectSeq(link_rows, IsA), Ev)

\* mutant of AnswerItem: a question without answer yields a placeholder with NULL text
AnswerItem_placeholder(qu, byq, byk, link_rows) ==
    LET found == IF qu.id /= NoId /\ qu.id \in DOMAIN byq THEN <<byq[qu.id]>>
                 ELSE IF qu.key \in DOMAIN byk THEN <<byk[qu.key]>>
                 ELSE <<>>
    IN IF found = <<>>
       THEN [skip |-> FALSE, ev_ids |-> {},
             item |-> [question_key |-> qu.key, question_prompt |-> qu.prompt,
                       answer_text |-> [text |-> NoId], updated_at |-> IsoFormat(0)]]
       ELSE LET ans == found[1]
                item == [question_key |-> qu.key,
                         question_prompt |-> qu.prompt,
                         answer_text |-> ans.answer_text,
                         updated_at |-> IsoFormat(ans.updated_at)]
                ev_ids == ev_ids_by_answer(link_rows, ans.id)
            IN IF ev_ids /= <<>>
               THEN [skip |-> FALSE, item |-> item @@ [evidence_ids |-> MapSeq(ev_ids, Str)],
                     ev_ids |-> Range(ev_ids)]
               ELSE [skip |-> FALSE, item |-> item, ev_ids |-> {}]

\* mutant of AnswerItem: the key index is asked before the identity index
AnswerItem_key_first(qu, byq, byk, link_rows) ==
    LET found == IF qu.key \in DOMAIN byk THEN <<byk[qu.key]>>
                 ELSE IF qu.id /= NoId /\ qu.id \in DOMAIN byq THEN <<byq[qu.id]>>
                 ELSE <<>>
    IN IF found = <<>> THEN [skip |-> TRUE]
       ELSE LET ans == found[1]
                item == [question_key |-> qu.key,
                         question_prompt |-> qu.prompt,
                         answer_text |-> ans.answer_text,
                         updated_at |-> IsoFormat(ans.updated_at)]
                ev_ids == ev_ids_by_answer(link_rows, ans.id)
            IN IF ev_ids /= <<>>
               THEN [skip |-> FALSE, item |-> item @@ [evidence_ids |-> MapSeq(ev_ids, Str)],
                     ev_ids |-> Range(ev_ids)]
               ELSE [skip |-> FALSE, item |-> item, ev_ids |-> {}]

\* one iteration of "for qu in questions": the AnswerView of the question, or none
AnswerItem(qu, byq, byk, link_rows) ==
    LET found == IF qu.id /= NoId /\ qu.id \in DOMAIN byq THEN <<byq[qu.id]>>
                 ELSE IF qu.key \in DOMAIN byk THEN <<byk[qu.key]>>
                 ELSE <<>>
    IN IF found = <<>> THEN [skip |-> TRUE]
       ELSE LET ans == found[1]
                item == [question_key |-> qu.key,
                         question_prompt |-> qu.prompt,
                         answer_text |-> ans.answer_text,
                         updated_at |-> IsoFormat(ans.updated_at)]
                ev_ids == ev_ids_by_answer(link_rows, ans.id)
            IN IF ev_ids /= <<>>
               THEN [skip |-> FALSE, item |-> item @@ [evidence_ids |-> MapSeq(ev_ids, Str)],
                     ev_ids |-> Range(ev_ids)]
               ELSE [skip |-> FALSE, item |-> item, ev_ids |-> {}]

\* the loop over the questions: the answers list and the set all_ev_ids
RECURSIVE AnswerLoop(_, _, _, _, _)
AnswerLoop(qs, byq, byk, link_rows, acc) ==
    IF qs = <<>> THEN acc
    ELSE LET r == AnswerItem(Head(qs), byq, byk, link_rows)
         IN AnswerLoop(Tail(qs), byq, byk, link_rows,
                       IF r.skip THEN acc
                       ELSE [answers |-> Append(acc.answers, r.item),
                             all_ev_ids |-> acc.all_ev_ids \cup r.ev_ids])

EvidenceView(er) ==
    [id |-> Str(er.id), title |-> er.title, original_filename |-> er.original_filename,
     storage_key |-> er.storage_key]

\* mutant of select_evidence: no tenant condition in the query
select_evidence_any_tenant(evScan, tenant_id, all_ev_ids) ==
    LET Wanted(er) == er.id \in all_ev_ids
    IN IF all_ev_ids /= {} THEN SelectSeq(evScan, Wanted) ELSE <<>>

\* mutant of select_evidence: no id condition in the query
select_evidence_all_ids(evScan, tenant_id, all_ev_ids) ==
    LET Wanted(er) == er.tenant_id = tenant_id
    IN SelectSeq(evScan, Wanted)

\* lines 157-160: the evidence rows of the tenant whose id is in all_ev_ids, in scan
\* order; no query when all_ev_ids is empty
select_evidence(evScan, tenant_id, all_ev_ids) ==
    LET Wanted(er) == er.tenant_id = tenant_id /\ er.id \in all_ev_ids
    IN IF all_ev_ids /= {} THEN SelectSeq(evScan, Wanted) ELSE <<>>

\* _build_pack_via_db(session, ctx, template_code).  S is the store, now the clock reading,
\* ansScan / linkScan / evScan the order in which the store returns the rows of the three
\* queries that have no ORDER BY.
_build_pack_via_db(S, tenant_id, template_code, now, ansScan, linkScan, evScan) ==
    LET res == resolve_tables(S.tables)
        t == res.t
        q == res.q
        a == res.a
        ae == res.ae
    IN IF ~res.ok THEN [status |-> "error", error |-> res.error, candidates |-> res.candidates,
                        existing |-> res.existing]
       ELSE
       LET tpl_rows == {r \in RowsOf(t.name, "template", S.templates, S.holder) : r.code = template_code}
       IN IF tpl_rows = {} THEN [status |-> "error", error |-> "ValueError"]
          ELSE
          LET tpl_row == CHOOSE r \in tpl_rows : TRUE
              question_rows == SortByKey({r \in RowsOf(q.name, "question", S.questions, S.holder) :
                                            r.template_id = tpl_row.id})
              question_ids == {question_rows[i].id : i \in DOMAIN question_rows} \ {NoId}
              a_rows == RowsOf(a.name, "answer", S.answers, S.holder)
              InTemplate(r) == r \in a_rows /\ r.tenant_id = tenant_id /\ r.question_id \in question_ids
              OfTenant(r) == r \in a_rows /\ r.tenant_id = tenant_id
              answers_rows == IF question_ids /= {} /\ "question_id" \in S.answer_columns
                              THEN SelectSeq(ansScan, InTemplate)
                              ELSE SelectSeq(ansScan, OfTenant)
              l_rows == IF ae = None THEN {} ELSE RowsOf(ae, "link", S.links, S.holder)
              LinkOfTenant(lr) == lr \in l_rows /\ lr.tenant_id = tenant_id
              link_rows == SelectSeq(linkScan, LinkOfTenant)
              loop == AnswerLoop(question_rows, by_qid(answers_rows, S.answer_columns),
                                 by_key(answers_rows, S.answer_columns), link_rows,
                                 [answers |-> <<>>, all_ev_ids |-> {}])
              ev_rows == select_evidence(evScan, tenant_id, loop.all_ev_ids)
          IN [status |-> "pack",
              pack |-> [template |-> [code |-> tpl_row.code, name |-> tpl_row.name,
                                      version |-> tpl_row.version, language |-> tpl_row.language],
                        tenant_id |-> Str(tenant_id),
                        generated_at |-> IsoFormat(now),
                        answers |-> loop.answers,
                        evidence |-> MapSeq(ev_rows, EvidenceView)]]

\* ------------------------------------------------------------ _safe_zip_name
MaxNameLen == 120

Letters ==
    {"a", "b", "c", "d", "e", "f", "g", "h", "i", "j", "k", "l", "m", "n", "o", "p", "q", "r",
     "s", "t", "u", "v", "w", "x", "y", "z", "A", "B", "C", "D", "E", "F", "G", "H", "I", "J",
     "K", "L", "M", "N", "O", "P", "Q", "R", "S", "T", "U", "V", "W", "X", "Y", "Z"}
\* the class [A-Za-z0-9._ -]
AllowedChars == Letters \cup Range(Digits) \cup {"0", ".", "_", " ", "-"}
Whitespace == {" ", "\t", "\n", "\r"}

\* x or "" for a nullable text
OrEmpty(x) == IF x = NoneChars THEN <<>> ELSE x

\* the concatenation of ss[lo], ..., ss[hi]
RECURSIVE Concat(_, _, _)
Concat(ss, lo, hi) ==
    IF lo > hi THEN <<>>
    ELSE IF lo = hi THEN ss[lo]
    ELSE Concat(ss, lo, (lo + hi) \div 2) \o Concat(ss, (lo + hi) \div 2 + 1, hi)

\* the positions of "/" in s, with the positions before its start and after its end
SlashCuts(s) == {0, Len(s) + 1} \cup {i \in 1..Len(s) : s[i] = "/"}

\* name.split("/")
SplitSlash(s) ==
    LET Cut(C, k) == CHOOSE c \in C : Cardinality({d \in C : d < c}) = k - 1
        Parts(C) == [k \in 1..(Cardinality(C) - 1) |-> SubSeq(s, Cut(C, k) + 1, Cut(C, k + 1) - 1)]
    IN Parts(SlashCuts(s))

\* PurePosixPath(name).name: the last component, empty and "." components dropped
PosixName(name) ==
    LET Kept(c) == c /= <<>> /\ c /= <<".">>
        Last(parts) == IF parts = <<>> THEN <<>> ELSE parts[Len(parts)]
    IN Last(SelectSeq(SplitSlash(name), Kept))

\* base.replace("..", "."): left to right, without overlap, so that of a run of dots the
\* first, third, fifth, ... stay
ReplaceDotDot(s) ==
    LET RunStart(i) == CHOOSE j \in 1..i : /\ \A k \in j..i : s[k] = "."
                                           /\ j = 1 \/ s[j - 1] /= "."
        Out(i) == IF s[i] /= "." THEN <<s[i]>>
                  ELSE IF (i - RunStart(i)) % 2 = 0 THEN <<".">> ELSE <<>>
    IN Concat([i \in 1..Len(s) |-> Out(i)], 1, Len(s))

\* re.sub(r"[^A-Za-z0-9._ -]+", "_", base): each run of other characters becomes one "_"
SubDisallowed(s) ==
    LET Out(i) == IF s[i] \in AllowedChars THEN <<s[i]>>
                  ELSE IF i = 1 \/ s[i - 1] \in AllowedChars THEN <<"_">> ELSE <<>>
    IN Concat([i \in 1..Len(s) |-> Out(i)], 1, Len(s))

RECURSIVE LStrip(_)
LStrip(s) == IF s /= <<>> /\ Head(s) \in Whitespace THEN LStrip(Tail(s)) ELSE s

RECURSIVE RStrip(_)
RStrip(s) ==
    IF s /= <<>> /\ s[Len(s)] \in Whitespace THEN RStrip(SubSeq(s, 1, Len(s) - 1)) ELSE s

Strip(s) == RStrip(LStrip(s))

_safe_zip_name(name, fallback) ==
    LET base0 == PosixName(OrEmpty(name))
        base1 == ReplaceDotDot(base0)
        base2 == Strip(SubDisallowed(base1))
        base == IF base2 = <<>> THEN fallback ELSE base2
    IN SubSeq(base, 1, IF Len(base) < MaxNameLen THEN Len(base) ELSE MaxNameLen)

\* ------------------------------------------------------------ override policy
\* stored JSON values as Python sees them
PyValues == {"True", "False", "None", "0", "1", "''", "'yes'"}
\* bool(v)
Truthy(v) == v \in {"True", "1", "'yes'"}
IsBool(v) == v \in {"True", "False"}

EmptyDict == <<>>

\* get_overrides(db, tenant_id): the settings of the tenant's row, {} without a row
get_overrides(rows, tenant_id) ==
    LET mine == {r \in rows : r.tenant_id = tenant_id}
    IN IF mine = {} THEN EmptyDict ELSE (CHOOSE r \in mine : TRUE).settings

\* ------------------------------------------------------- Python object heap
\* A dict or list lives at an address of the heap; Ref(a) is a reference to it.
Ref(a) == [ref |-> a]
DictObj(d) == [type |-> "dict", d |-> d]
ListObj(items) == [type |-> "list", items |-> items]

\* d.pop(k, None) on a copy: the dict without the key
Pop(d, k) == [x \in DOMAIN d \ {k} |-> d[x]]

\* the objects _build_pack_via_db creates for its Pack, placed after the objects of h:
\* the pack dict, its two lists, one dict per AnswerView
alloc_pack(h, pack) ==
    LET n == Len(h)
        k == Len(pack.answers)
    IN [heap |-> h \o <<DictObj([template |-> pack.template, tenant_id |-> pack.tenant_id,
                                  generated_at |-> pack.generated_at,
                                  answers |-> Ref(n + 2), evidence |-> Ref(n + 3)]),
                         ListObj([i \in 1..k |-> Ref(n + 3 + i)]),
                         ListObj(pack.evidence)>>
                    \o [i \in 1..k |-> DictObj(pack.answers[i])],
        ref |-> n + 1]

\* the Pack value that the pack dict at address ref denotes
PackAt(h, ref) ==
    LET d == h[ref].d
        alist == h[d.answers.ref].items
    IN [template |-> d.template, tenant_id |-> d.tenant_id, generated_at |-> d.generated_at,
        answers |-> [i \in DOMAIN alist |-> h[alist[i].ref].d],
        evidence |-> h[d.evidence.ref].items]

\* mutant of _apply_passport_overrides: evidence_ids popped from the AnswerView dicts of
\* the input (a.pop instead of a2.pop)
apply_overrides_in_place(h, pack, overrides, include_key) ==
    LET include_evidence == IF include_key \in DOMAIN overrides THEN overrides[include_key] ELSE "True"
    IN IF Truthy(include_evidence) THEN [heap |-> h, ref |-> pack]
       ELSE LET n == Len(h)
                src == h[pack].d
                alist == h[src.answers.ref].items
                k == Len(alist)
                popped == [a \in DOMAIN h |->
                             IF \E i \in DOMAIN alist : alist[i].ref = a
                             THEN DictObj(Pop(h[a].d, "evidence_ids")) ELSE h[a]]
            IN [heap |-> popped \o <<DictObj([src EXCEPT !.evidence = Ref(n + 2), !.answers = Ref(n + 3)]),
                                      ListObj(<<>>),
                                      ListObj(alist)>>,
                ref |-> n + 1]

\* _apply_passport_overrides(pack, overrides, include_key) on the heap h: the heap after
\* the call and the address of the dict it returns
_apply_passport_overrides(h, pack, overrides, include_key) ==
    LET include_evidence == IF include_key \in DOMAIN overrides THEN overrides[include_key] ELSE "True"
    IN IF Truthy(include_evidence) THEN [heap |-> h, ref |-> pack]
       ELSE LET n == Len(h)
                src == h[pack].d
                alist == h[src.answers.ref].items
                k == Len(alist)
            IN [heap |-> h \o <<DictObj([src EXCEPT !.evidence = Ref(n + 2), !.answers = Ref(n + 3)]),
                                 ListObj(<<>>),
                                 ListObj([i \in 1..k |-> Ref(n + 3 + i)])>>
                            \o [i \in 1..k |-> DictObj(Pop(h[alist[i].ref].d, "evidence_ids"))],
                ref |-> n + 1]

\* ---------------------------------------------------------- document renderer
\* a NULL answer_text
NoText == [text |-> NoId]

Block(kind, label, text) == [kind |-> kind, label |-> label, text |-> <<text>>]

\* the blocks of one AnswerView
AnswerBlocks(a) ==
    <<IF a.question_prompt /= "" THEN Block("heading2", "", a.question_prompt)
      ELSE IF a.question_key /= NoKey THEN Block("heading2", "", a.question_key)
      ELSE Block("heading2", "", "Question")>>
    \o (IF a.question_key /= NoKey THEN <<Block("para", "Key: ", a.question_key)>> ELSE <<>>)
    \o (IF a.answer_text /= NoText
        THEN <<Block("para", "Answer: ", ""), Block("para", "", a.answer_text)>> ELSE <<>>)
    \o <<Block("para", "Updated: ", a.updated_at)>>
    \o (IF "evidence_ids" \in DOMAIN a /\ a.evidence_ids /= <<>>
        THEN <<Block("para", "Evidence IDs: ", a.evidence_ids)>> ELSE <<>>)
    \o <<Block("para", "", "")>>

RECURSIVE Flatten(_)
Flatten(ss) == IF ss = <<>> THEN <<>> ELSE Head(ss) \o Flatten(Tail(ss))

\* render_docx_bytes(pack): the document as its sequence of blocks
render_docx_bytes(pack) ==
    <<Block("heading1", "", IF pack.template.name /= "" THEN pack.template.name ELSE "Security Passport"),
      Block("para", "Template: ", <<pack.template.code, pack.template.version>>),
      Block("para", "Tenant: ", pack.tenant_id),
      Block("para", "Generated: ", pack.generated_at),
      Block("para", "", "")>>
    \o Flatten(MapSeq(pack.answers, AnswerBlocks))

\* ------------------------------------------------------- stores considered
SeedTemplates ==
    {[id |-> 1, code |-> "iso27001", name |-> "ISO 27001", version |-> "2022", language |-> "en"],
     [id |-> 2, code |-> "soc2", name |-> "SOC 2", version |-> "2017", language |-> "en"]}

\* unique (template_id, key); the prompt tells the questions apart
SeedQuestions ==
    {[id |-> 1, template_id |-> 1, key |-> 1, prompt |-> "prompt q1"],
     [id |-> 2, template_id |-> 1, key |-> 2, prompt |-> "prompt q2"],
     [id |-> 3, template_id |-> 2, key |-> 1, prompt |-> "prompt q3"]}

TemplateCodes == {"iso27001", "soc2", "nist"}

AnswerId(t, qid) == (IF t = "T1" THEN 0 ELSE Cardinality(SeedQuestions)) + qid

AnswerRow(t, qid, qkey) ==
    [id |-> AnswerId(t, qid), tenant_id |-> t, question_id |-> qid, question_key |-> qkey,
     answer_text |-> [text |-> AnswerId(t, qid)], updated_at |-> 1]

\* tenant_answers as migrated: question_id NOT NULL, unique (tenant_id, question_id)
AnswerSets ==
    LET U == {AnswerRow(t, qu.id, NoKey) : t \in Tenants, qu \in SeedQuestions}
    IN {A \in SUBSET U : Cardinality(A) <= MaxAnswers}

EvidenceRow(id, t, storage_key, filename) ==
    [id |-> id, tenant_id |-> t, title |-> [title |-> id],
     original_filename |-> filename, storage_key |-> storage_key]

\* f"{tenant_id}/{eid}/{sha256}" as upload_file forms it
StorageKey(t, id) == <<t, "/", Digit(id), "/", "h">>

EvidenceSets ==
    {{EvidenceRow(i, own[i], StorageKey(own[i], i), <<"a">>) : i \in 1..MaxEvidence} :
        own \in [1..MaxEvidence -> Tenants]}

\* tenant_answer_evidence as migrated: foreign keys to tenants, answers and evidence,
\* unique (tenant_id, answer_id, evidence_id); nothing ties the three tenants together
LinkSets(A, E) ==
    LET U == {[tenant_id |-> t, answer_id |-> a.id, evidence_id |-> e.id] :
                t \in Tenants, a \in A, e \in E}
    IN {L \in SUBSET U : Cardinality(L) <= MaxLinks}

DefaultTables ==
    {"questionnaire_templates", "questionnaire_questions", "tenant_answers",
     "tenant_answer_evidence", "evidence_items", "tenant_overrides"}

DefaultHolder ==
    [template |-> "questionnaire_templates", question |-> "questionnaire_questions",
     answer |-> "tenant_answers", link |-> "tenant_answer_evidence"]

\* the schemas considered: as migrated, without the link table, and without any
\* template table
TableVariants ==
    {[tables |-> DefaultTables, holder |-> DefaultHolder],
     [tables |-> DefaultTables \ {"tenant_answer_evidence"},
      holder |-> [DefaultHolder EXCEPT !.link = None]],
     [tables |-> DefaultTables \ {"questionnaire_templates"},
      holder |-> [DefaultHolder EXCEPT !.template = None]]}

\* the audit rows that create_evidence and upload_file wrote for the evidence items
AuditEvent(tenant_id, action, object_id) ==
    [tenant_id |-> tenant_id, action |-> action, object_id |-> Str(object_id)]
AuditTrail(E) ==
    {AuditEvent(e.tenant_id, "evidence.create", e.id) : e \in E}
    \cup {AuditEvent(e.tenant_id, "evidence.upload", e.id) : e \in {x \in E : x.storage_key /= NoneChars}}

\* the objects that upload_file put into the bucket for the evidence items
StoredObjects(E) == {e.storage_key : e \in {x \in E : x.storage_key /= NoneChars}}

NoNaming == [status |-> "none"]

\* ---------------------------------------------------- requests of the REST API
MaxRequests == 3
Requests == 1..MaxRequests

\* no override-writing request has been made
NoWriters == [i \in Requests |-> [pc |-> "none"]]
\* no call of attach_evidence or upload_file has been made
NoApi == [op |-> "none"]
ApiIdle == writers = NoWriters /\ api = NoApi

\* prev: how the call before the last one ended
NoCall == [tenant |-> None, code |-> None, result |-> [status |-> "none"], prev |-> "none"]

NoRequest == [kind |-> None, tenant |-> None, code |-> None]
NoResponse == [status |-> 0]

ExportIdle ==
    /\ pc = "idle" /\ req = NoRequest /\ heap = <<>> /\ refs = [built |-> 0, out |-> 0]
    /\ built = [status |-> "none"] /\ archive = <<>> /\ failures = <<>> /\ downloaded = 0
    /\ idx = 0 /\ io = <<>> /\ response = NoResponse

\* a store that satisfies the declared schema constraints; a table that does not
\* exist has no rows
InitPack ==
    /\ \E v \in TableVariants : tables = v.tables /\ holder = v.holder
    /\ templates = IF holder.template = None THEN {} ELSE SeedTemplates
    /\ questions = IF holder.template = None THEN {} ELSE SeedQuestions
    /\ answer_columns = {"question_id"}
    /\ answers \in (IF holder.template = None THEN {{}} ELSE AnswerSets)
    /\ evidence_items \in EvidenceSets
    /\ links \in (IF holder.link = None THEN {{}} ELSE LinkSets(answers, evidence_items))
    /\ tenant_overrides = {}
    /\ audit_events = AuditTrail(evidence_items)
    /\ objects = StoredObjects(evidence_items)
    /\ naming = NoNaming
    /\ ApiIdle
    /\ clock = 0
    /\ call = NoCall
    /\ ExportIdle

\* one call of _build_pack_via_db by some tenant for some template code
Build ==
    /\ clock < MaxTime
    /\ \E t \in Tenants, c \in TemplateCodes,
          ansScan \in Orderings(answers), linkScan \in Orderings(links),
          evScan \in Orderings(evidence_items) :
            call' = [tenant |-> t, code |-> c,
                     result |-> _build_pack_via_db(Store, t, c, clock + 1, ansScan, linkScan, evScan),
                     prev |-> call.result.status]
    /\ clock' = clock + 1
    /\ UNCHANGED <<storeVars, naming, apiVars, exportVars>>

NextPack == Build

SpecPack == InitPack /\ [][NextPack]_vars

\* ------------------------------------------------- claims on the assembler
CallPack == call.result.pack
Returned == call.result.status = "pack"

HasEvidenceIds(a) == "evidence_ids" \in DOMAIN a
EvidenceIdsOf(a) == IF HasEvidenceIds(a) THEN Range(a.evidence_ids) ELSE {}
ReferencedIds(pack) == UNION {EvidenceIdsOf(pack.answers[i]) : i \in DOMAIN pack.answers}
Occurrences(pack, id) == {j \in DOMAIN pack.evidence : pack.evidence[j].id = id}

\* C2 (as claimed): in every Pack returned, each id listed in an answer's evidence_ids
\* occurs exactly once in pack.evidence and pack.evidence has no duplicate ids
C2_EvidenceIdsResolved ==
    Returned =>
        /\ \A id \in ReferencedIds(CallPack) : Cardinality(Occurrences(CallPack, id)) = 1
        /\ \A i, j \in DOMAIN CallPack.evidence :
              CallPack.evidence[i].id = CallPack.evidence[j].id => i = j

\* C3: the answers of the Pack built for template code C are views of questions of
\* template C, at most one per question, in strictly ascending question-key order
C3_AnswersOfTemplateAscending ==
    Returned =>
        LET tpl == CHOOSE r \in templates : r.code = call.code
            prompts == {qu.prompt : qu \in {r \in questions : r.template_id = tpl.id}}
            av == CallPack.answers
        IN /\ \A i \in DOMAIN av : av[i].question_prompt \in prompts
           /\ \A i, j \in DOMAIN av : i /= j => av[i].question_prompt /= av[j].question_prompt
           /\ \A i, j \in DOMAIN av : i < j => av[i].question_key < av[j].question_key

C3_Witness == Returned /\ Len(CallPack.answers) >= 2

RequiredTablesExist ==
    /\ FirstPresent(TemplateCandidates, tables) /= 0
    /\ FirstPresent(QuestionCandidates, tables) /= 0
    /\ FirstPresent(AnswerCandidates, tables) /= 0

LinkTableMissing == \A i \in DOMAIN LinkCandidates : LinkCandidates[i] \notin tables

\* C5: with no link table the assembler does not fail for want of it (it returns a Pack
\* whenever the required tables and the template exist), and the Pack has no evidence_ids
\* in any AnswerView and an empty evidence list
C5_MissingLinkTableNoError ==
    (LinkTableMissing /\ call /= NoCall) =>
        /\ (RequiredTablesExist /\ call.code \in {r.code : r \in templates}) => Returned
        /\ call.result.status = "error" => call.result.error = "ValueError"
        /\ Returned =>
              /\ \A i \in DOMAIN CallPack.answers : ~HasEvidenceIds(CallPack.answers[i])
              /\ CallPack.evidence = <<>>

C5_Witness ==
    /\ LinkTableMissing /\ Returned /\ Len(CallPack.answers) >= 1
    /\ \E e \in evidence_items : e.tenant_id = call.tenant

SameExceptGeneratedAt(p1, p2) ==
    [p1 EXCEPT !.generated_at = IsoFormat(0)] = [p2 EXCEPT !.generated_at = IsoFormat(0)]

\* C9 (as claimed): a call that follows a call for the same tenant and template code,
\* with no store write in between, returns an equal Pack except for generated_at
C9_RebuildEqual ==
    [][(/\ Returned
        /\ call'.result.status = "pack"
        /\ call'.tenant = call.tenant /\ call'.code = call.code
        /\ UNCHANGED storeVars)
       => SameExceptGeneratedAt(call.result.pack, call'.result.pack)]_vars

\* the template of the last call's code, and the answers of the calling tenant to its questions
CallTemplateIds == {r.id : r \in {x \in templates : x.code = call.code}}
ExportedAnswers ==
    {a \in answers : a.tenant_id = call.tenant
                      /\ \E qu \in questions : qu.id = a.question_id /\ qu.template_id \in CallTemplateIds}

\* a link row of the calling tenant from an exported answer to an evidence id that the
\* tenant-scoped evidence load does not return
UnloadableLinks ==
    {l \in links : /\ l.tenant_id = call.tenant
                    /\ \E a \in ExportedAnswers : a.id = l.answer_id
                    /\ ~\E e \in evidence_items : e.id = l.evidence_id /\ e.tenant_id = call.tenant}

\* C11 (as claimed): when an exported answer is linked to an evidence id that the
\* tenant-scoped load does not return, the assembly ends in an error and returns no Pack
\* that lists the id in evidence_ids without having it in the evidence list
C11_UnloadableLinkIsError ==
    (call /= NoCall /\ UnloadableLinks /= {}) =>
        /\ call.result.status = "error"
        /\ ~(Returned /\ \E l \in UnloadableLinks :
                            /\ Str(l.evidence_id) \in ReferencedIds(CallPack)
                            /\ Occurrences(CallPack, Str(l.evidence_id)) = {})

\* ------------------------------------------------- archive names of uploads
MaxFileNameLen == 4

\* characters of the original filenames considered: a dot, the two path separators, a
\* space and a letter
NameAlphabet == {".", "/", "\\", " ", "a"}

\* a run of k letters, to reach names longer than MaxNameLen
Letters_b(k) == [i \in 1..k |-> "b"]
TailLengths == {0, MaxNameLen - 1, MaxNameLen + 1}

\* original filenames: NULL, or up to MaxFileNameLen characters followed by a run of letters
FileNames ==
    {NoneChars}
    \cup {pre \o Letters_b(k) :
            pre \in UNION {[1..n -> NameAlphabet] : n \in 0..MaxFileNameLen}, k \in TailLengths}

\* f"{ev['id']}.bin"
BinName(id) == IdChars(id) \o <<".", "b", "i", "n">>

\* an empty store and one evidence filename to be given an archive name
InitName ==
    /\ tables = DefaultTables /\ holder = DefaultHolder
    /\ templates = SeedTemplates /\ questions = SeedQuestions
    /\ answer_columns = {"question_id"}
    /\ answers = {} /\ evidence_items = {} /\ links = {} /\ tenant_overrides = {}
    /\ audit_events = {} /\ objects = {}
    /\ clock = 0
    /\ call = NoCall
    /\ ExportIdle
    /\ \E name \in FileNames, id \in 1..MaxEvidence :
          naming = [status |-> "input", name |-> name, id |-> Str(id)]
    /\ ApiIdle

\* line 245: name = _safe_zip_name(ev.get("original_filename") or "", f"{ev['id']}.bin")
sanitize ==
    /\ naming.status = "input"
    /\ naming' = [status |-> "named", name |-> naming.name, id |-> naming.id,
                  result |-> _safe_zip_name(naming.name, BinName(naming.id))]
    /\ UNCHANGED <<storeVars, clock, call, exportVars, apiVars>>

NextName == sanitize

SpecName == InitName /\ [][NextName]_vars

Named == naming.status = "named"

\* the filename after the three sanitizing steps, before the fallback and the cut
Sanitized(name) == Strip(SubDisallowed(ReplaceDotDot(PosixName(OrEmpty(name)))))

HasDotDot(s) == \E i \in 1..(Len(s) - 1) : s[i] = "." /\ s[i + 1] = "."

\* C12 (as claimed): the archive name of any filename has no path separator, no ".."
\* sequence, only characters of [A-Za-z0-9._ -], is not empty, has at most 120
\* characters, and is "<evidence-id>.bin" when sanitizing leaves an empty name
C12_SafeName ==
    Named =>
        /\ \A i \in DOMAIN naming.result : naming.result[i] \notin {"/", "\\"}
        /\ ~HasDotDot(naming.result)
        /\ Range(naming.result) \subseteq AllowedChars
        /\ naming.result /= <<>>
        /\ Len(naming.result) <= MaxNameLen
        /\ Sanitized(naming.name) = <<>> => naming.result = BinName(naming.id)

\* ------------------------------------------------------------ export requests
MaxChunks == 2

HttpOk == 200
HttpServerError == 500
HttpNotFound == 404

\* mutant of IncludeKey: the zip export reads the docx key
IncludeKeyDocxOnly(kind) == "passport_docx_include_evidence"

\* the include_key each export passes to _apply_passport_overrides
IncludeKey(kind) ==
    IF kind = "zip" THEN "passport_zip_include_evidence" ELSE "passport_docx_include_evidence"

\* lines 200-204 and 218-222: overrides, assembly, exclusion, rendering.  An exception of
\* the assembler ends the request before anything is rendered.
prepare_export(S, tenant_id, template_code, kind, now, ansScan, linkScan, evScan) ==
    LET overrides == get_overrides(S.tenant_overrides, tenant_id)
        \* docx_bytes = _render_docx_bytes(pack), r the pack after the overrides
        Rendered(b, h, r) ==
            [ok |-> TRUE, built |-> b, heap |-> r.heap, built_ref |-> h.ref, out_ref |-> r.ref,
             docx_bytes |-> render_docx_bytes(PackAt(r.heap, r.ref))]
        \* pack = _apply_passport_overrides(pack, overrides, include_key), h the pack as built
        Applied(b, h) ==
            Rendered(b, h, _apply_passport_overrides(h.heap, h.ref, overrides, IncludeKey(kind)))
        \* pack = _build_pack_via_db(...), b its outcome
        Assembled(b) ==
            IF b.status = "error" THEN [ok |-> FALSE, error |-> b.error, built |-> b]
            ELSE Applied(b, alloc_pack(<<>>, b.pack))
    IN Assembled(_build_pack_via_db(S, tenant_id, template_code, now, ansScan, linkScan, evScan))

\* an exception that leaves the handler: HTTPException keeps its status code, anything
\* else is answered as an internal server error
ErrorResponse(error) ==
    [status |-> IF error = "HTTPException 404" THEN HttpNotFound ELSE HttpServerError,
     media |-> "error", body |-> <<>>]

IoEvent(op, arg) == [op |-> op, arg |-> arg]

\* mutant of export_audit: the export is logged as export_pack of questionnaires.py logs it
export_audit_logged(events, tenant_id, template_code) ==
    events \cup {[tenant_id |-> tenant_id, action |-> "pack.export", object_id |-> template_code]}

\* audit_events after an export request: the two handlers call neither write_audit nor
\* session.commit, the session is closed with nothing added to it
export_audit(events, tenant_id, template_code) == events

\* GET /passport/{template_code}.docx
export_passport_docx ==
    /\ pc = "idle"
    /\ \E t \in Tenants, c \in TemplateCodes,
          ansScan \in Orderings(answers), linkScan \in Orderings(links),
          evScan \in Orderings(evidence_items) :
        LET Respond(p) ==
                /\ req' = [kind |-> "docx", tenant |-> t, code |-> c]
                /\ audit_events' = export_audit(audit_events, t, c)
                /\ built' = p.built
                /\ IF p.ok
                   THEN /\ heap' = p.heap
                        /\ refs' = [built |-> p.built_ref, out |-> p.out_ref]
                        /\ io' = <<IoEvent("render", <<>>)>>
                        /\ response' = [status |-> HttpOk, media |-> "docx", body |-> p.docx_bytes]
                   ELSE /\ response' = ErrorResponse(p.error)
                        /\ UNCHANGED <<heap, refs, io>>
        IN Respond(prepare_export(Store, t, c, "docx", clock + 1, ansScan, linkScan, evScan))
    /\ pc' = "done"
    /\ clock' = clock + 1
    /\ UNCHANGED <<dataVars, naming, apiVars, call, archive, failures, downloaded, idx>>

FixedPath(p) == [fixed |-> p, name |-> <<>>]
FilePath(name) == [fixed |-> "evidence/files/", name |-> name]
NoOwner == Str(NoId)
Entry(path, owner, content) == [path |-> path, owner |-> owner, content |-> <<content>>]

\* mutant of first_entries: the document is written before pack.json
first_entries_docx_first(pack, docx_bytes) ==
    <<Entry(FixedPath("security_passport.docx"), NoOwner, docx_bytes),
      Entry(FixedPath("pack.json"), NoOwner, [json |-> pack])>>
    \o (IF pack.evidence /= <<>>
        THEN <<Entry(FixedPath("evidence/README.txt"), NoOwner, "Evidence files attached to answers."),
               Entry(FixedPath("evidence/_meta.txt"), NoOwner, [count |-> Len(pack.evidence)])>>
        ELSE <<>>)

\* lines 227-236: the entries written before the loop over evidence_items
first_entries(pack, docx_bytes) ==
    <<Entry(FixedPath("pack.json"), NoOwner, [json |-> pack]),
      Entry(FixedPath("security_passport.docx"), NoOwner, docx_bytes)>>
    \o (IF pack.evidence /= <<>>
        THEN <<Entry(FixedPath("evidence/README.txt"), NoOwner, "Evidence files attached to answers."),
               Entry(FixedPath("evidence/_meta.txt"), NoOwner, [count |-> Len(pack.evidence)])>>
        ELSE <<>>)

\* GET /passport/{template_code}.zip, up to the loop over evidence_items
export_passport_zip_begin ==
    /\ pc = "idle"
    /\ \E t \in Tenants, c \in TemplateCodes,
          ansScan \in Orderings(answers), linkScan \in Orderings(links),
          evScan \in Orderings(evidence_items) :
        LET Proceed(p) ==
                /\ req' = [kind |-> "zip", tenant |-> t, code |-> c]
                /\ audit_events' = export_audit(audit_events, t, c)
                /\ built' = p.built
                /\ IF p.ok
                   THEN /\ heap' = p.heap
                        /\ refs' = [built |-> p.built_ref, out |-> p.out_ref]
                        /\ io' = <<IoEvent("render", <<>>), IoEvent("zip_open", <<>>)>>
                        /\ archive' = first_entries(PackAt(p.heap, p.out_ref), p.docx_bytes)
                        /\ idx' = 1
                        /\ pc' = "loop"
                        /\ UNCHANGED response
                   ELSE /\ response' = ErrorResponse(p.error)
                        /\ pc' = "done"
                        /\ UNCHANGED <<heap, refs, io, archive, idx>>
        IN Proceed(prepare_export(Store, t, c, "zip", clock + 1, ansScan, linkScan, evScan))
    /\ clock' = clock + 1
    /\ UNCHANGED <<dataVars, naming, apiVars, call, failures, downloaded>>

\* what can happen to the download of one file: the retrieval URL cannot be obtained, the
\* request fails, the status is not a success, the body breaks off after some chunks, or
\* the whole body of MaxChunks chunks arrives
DownloadOutcomes ==
    {[kind |-> k, chunks |-> 0] : k \in {"url_error", "network_error", "bad_status"}}
    \cup {[kind |-> "stream_error", chunks |-> n] : n \in 0..(MaxChunks - 1)}
    \cup {[kind |-> "ok", chunks |-> MaxChunks]}

\* type(ex).__name__
ExceptionName(kind) ==
    CASE kind = "url_error" -> "ClientError"
      [] kind = "network_error" -> "ConnectError"
      [] kind = "bad_status" -> "HTTPStatusError"
      [] kind = "stream_error" -> "ReadError"

FailureLine2(id, reason) == [fields |-> 2, id |-> id, name |-> <<>>, reason |-> reason]
FailureLine3(id, name, reason) == [fields |-> 3, id |-> id, name |-> name, reason |-> reason]

Falsy(text) == text = NoneChars \/ text = <<>>

\* mutant of download_item: the archive entry is opened before raise_for_status
download_item_entry_first(ev, o, st) ==
    IF Falsy(ev.storage_key)
    THEN [st EXCEPT !.failures = Append(@, FailureLine2(ev.id, "missing_storage_key"))]
    ELSE
    LET name == _safe_zip_name(ev.original_filename, BinName(ev.id))
        asked == Append(st.io, IoEvent("get_download_url", ev.storage_key))
        failed == Append(st.failures, FailureLine3(ev.id, name, ExceptionName(o.kind)))
        entry == Entry(FilePath(name), ev.id, [chunks |-> o.chunks, complete |-> o.kind = "ok"])
    IN CASE o.kind = "url_error" -> [st EXCEPT !.io = asked, !.failures = failed]
         [] o.kind = "network_error" ->
                [st EXCEPT !.io = Append(asked, IoEvent("http_get", ev.storage_key)), !.failures = failed]
         [] o.kind \in {"bad_status", "stream_error"} ->
                [st EXCEPT !.io = Append(asked, IoEvent("http_get", ev.storage_key)),
                           !.archive = Append(@, entry), !.failures = failed]
         [] o.kind = "ok" ->
                [st EXCEPT !.io = Append(asked, IoEvent("http_get", ev.storage_key)),
                           !.archive = Append(@, entry), !.downloaded = @ + 1]

\* mutant of download_item: no except clause, a failed download leaves the handler
download_item_no_catch(ev, o, st) ==
    IF Falsy(ev.storage_key)
    THEN [st EXCEPT !.failures = Append(@, FailureLine2(ev.id, "missing_storage_key"))]
    ELSE
    LET name == _safe_zip_name(ev.original_filename, BinName(ev.id))
        asked == Append(st.io, IoEvent("get_download_url", ev.storage_key))
        entry == Entry(FilePath(name), ev.id, [chunks |-> o.chunks, complete |-> o.kind = "ok"])
    IN CASE o.kind = "url_error" -> [st EXCEPT !.io = asked, !.raised = ExceptionName(o.kind)]
         [] o.kind \in {"network_error", "bad_status"} ->
                [st EXCEPT !.io = Append(asked, IoEvent("http_get", ev.storage_key)),
                           !.raised = ExceptionName(o.kind)]
         [] o.kind = "stream_error" ->
                [st EXCEPT !.io = Append(asked, IoEvent("http_get", ev.storage_key)),
                           !.archive = Append(@, entry), !.raised = ExceptionName(o.kind)]
         [] o.kind = "ok" ->
                [st EXCEPT !.io = Append(asked, IoEvent("http_get", ev.storage_key)),
                           !.archive = Append(@, entry), !.downloaded = @ + 1]

\* mutant of download_item: no test of the storage key, the retrieval URL of a missing
\* key is asked for and the request fails
download_item_no_key_check(ev, o, st) ==
    LET name == _safe_zip_name(ev.original_filename, BinName(ev.id))
        asked == Append(st.io, IoEvent("get_download_url", ev.storage_key))
        failed == Append(st.failures, FailureLine3(ev.id, name, ExceptionName(o.kind)))
        entry == Entry(FilePath(name), ev.id, [chunks |-> o.chunks, complete |-> o.kind = "ok"])
    IN CASE Falsy(ev.storage_key) ->
                [st EXCEPT !.io = asked,
                           !.failures = Append(@, FailureLine3(ev.id, name, "ClientError"))]
         [] o.kind = "url_error" -> [st EXCEPT !.io = asked, !.failures = failed]
         [] o.kind \in {"network_error", "bad_status"} ->
                [st EXCEPT !.io = Append(asked, IoEvent("http_get", ev.storage_key)), !.failures = failed]
         [] o.kind = "stream_error" ->
                [st EXCEPT !.io = Append(asked, IoEvent("http_get", ev.storage_key)),
                           !.archive = Append(@, entry), !.failures = failed]
         [] o.kind = "ok" ->
                [st EXCEPT !.io = Append(asked, IoEvent("http_get", ev.storage_key)),
                           !.archive = Append(@, entry), !.downloaded = @ + 1]

\* lines 239-260, one iteration of "for ev in evidence_items" with download outcome o.
\* st holds archive, failures, downloaded, io, and raised: the exception that leaves the
\* loop body (None when none does).
download_item(ev, o, st) ==
    IF Falsy(ev.storage_key)
    THEN [st EXCEPT !.failures = Append(@, FailureLine2(ev.id, "missing_storage_key"))]
    ELSE
    LET name == _safe_zip_name(ev.original_filename, BinName(ev.id))
        asked == Append(st.io, IoEvent("get_download_url", ev.storage_key))
        failed == Append(st.failures, FailureLine3(ev.id, name, ExceptionName(o.kind)))
        entry == Entry(FilePath(name), ev.id, [chunks |-> o.chunks, complete |-> o.kind = "ok"])
    IN CASE o.kind = "url_error" -> [st EXCEPT !.io = asked, !.failures = failed]
         [] o.kind \in {"network_error", "bad_status"} ->
                [st EXCEPT !.io = Append(asked, IoEvent("http_get", ev.storage_key)), !.failures = failed]
         [] o.kind = "stream_error" ->
                [st EXCEPT !.io = Append(asked, IoEvent("http_get", ev.storage_key)),
                           !.archive = Append(@, entry), !.failures = failed]
         [] o.kind = "ok" ->
                [st EXCEPT !.io = Append(asked, IoEvent("http_get", ev.storage_key)),
                           !.archive = Append(@, entry), !.downloaded = @ + 1]

\* evidence_items of export_passport_zip: pack.get("evidence", []) or []
EvidenceList == PackAt(heap, refs.out).evidence

\* one iteration of the loop over evidence_items
export_passport_zip_download ==
    /\ pc = "loop"
    /\ idx <= Len(EvidenceList)
    /\ \E o \in DownloadOutcomes :
        LET st == download_item(EvidenceList[idx], o,
                                [archive |-> archive, failures |-> failures,
                                 downloaded |-> downloaded, io |-> io, raised |-> None])
        IN /\ archive' = st.archive
           /\ failures' = st.failures
           /\ downloaded' = st.downloaded
           /\ io' = st.io
           /\ IF st.raised = None
              THEN idx' = idx + 1 /\ UNCHANGED <<pc, response>>
              ELSE pc' = "done" /\ response' = ErrorResponse(st.raised) /\ UNCHANGED idx
    /\ UNCHANGED <<storeVars, naming, apiVars, clock, call, req, heap, refs, built>>

\* lines 262-271: the failed-downloads entry and the response
export_passport_zip_finish ==
    /\ pc = "loop"
    /\ idx > Len(EvidenceList)
    /\ archive' = IF EvidenceList /= <<>> /\ failures /= <<>>
                  THEN Append(archive, Entry(FixedPath("evidence/_FAILED_DOWNLOADS.txt"), NoOwner,
                                             [lines |-> failures]))
                  ELSE archive
    /\ response' = [status |-> HttpOk, media |-> "zip", body |-> archive']
    /\ pc' = "done"
    /\ UNCHANGED <<storeVars, naming, apiVars, clock, call, req, heap, refs, built, failures, downloaded, idx, io>>

\* ------------------------------------------------ stores of the export check
\* settings maps as the JSONB column settings may hold them: empty, or one inclusion key
\* with a JSON value (validate_overrides lets only booleans through on the write path of
\* this API; the column itself takes any JSON)
OverrideSettings ==
    {EmptyDict}
    \cup {"passport_zip_include_evidence" :> v : v \in PyValues}
    \cup {"passport_docx_include_evidence" :> v : v \in {"True", "False", "0", "'yes'"}}

UploadNames == {<<"a">>, <<"d", "/", "a">>}

\* evidence of T1: not uploaded yet (no storage key, no filename) or uploaded
EvidenceSetsZip ==
    LET Choices == {NoneChars} \cup UploadNames
    IN {{EvidenceRow(i, "T1", IF f[i] = NoneChars THEN NoneChars ELSE StorageKey("T1", i), f[i]) :
            i \in 1..MaxEvidence} : f \in [1..MaxEvidence -> Choices]}

AnswersZip == {AnswerRow("T1", 1, NoKey), AnswerRow("T1", 2, NoKey)}

InitZip ==
    /\ tables = DefaultTables /\ holder = DefaultHolder
    /\ templates = SeedTemplates /\ questions = SeedQuestions
    /\ answer_columns = {"question_id"}
    /\ answers = AnswersZip
    /\ evidence_items \in EvidenceSetsZip
    /\ links \in {L \in LinkSets({a \in answers : a.tenant_id = "T1"}, evidence_items) :
                    \A l \in L : l.tenant_id = "T1"}
    /\ tenant_overrides \in
          {{}} \cup {{[tenant_id |-> "T1", settings |-> s]} : s \in OverrideSettings}
    /\ audit_events = AuditTrail(evidence_items)
    /\ objects = StoredObjects(evidence_items)
    /\ naming = NoNaming
    /\ ApiIdle
    /\ clock = 0
    /\ call = NoCall
    /\ ExportIdle

NextZip ==
    \/ export_passport_docx
    \/ export_passport_zip_begin
    \/ export_passport_zip_download
    \/ export_passport_zip_finish

SpecZip == InitZip /\ [][NextZip]_vars

\* --------------------------------------------------- claims on the exports
ZipDone == pc = "done" /\ req.kind = "zip"
PackBuilt == built.status = "pack"
OutPack == PackAt(heap, refs.out)

HasEntry(a, fixed) == \E i \in DOMAIN a : a[i].path = FixedPath(fixed)
FileEntriesOf(a, id) ==
    {i \in DOMAIN a : a[i].path.fixed = "evidence/files/" /\ a[i].owner = id}
EvidenceEntries(a) ==
    {i \in DOMAIN a : a[i].path.fixed \in {"evidence/files/", "evidence/README.txt",
                                           "evidence/_meta.txt", "evidence/_FAILED_DOWNLOADS.txt"}}
FailedIds == {failures[i].id : i \in DOMAIN failures}
UrlRequests == {i \in DOMAIN io : io[i].op = "get_download_url"}

\* C1: whatever subset of the downloads fails, the zip export of a built Pack returns an
\* archive with pack.json, security_passport.docx and exactly one complete evidence/files
\* entry for each item that did not fail, and every item of the Pack was attempted
C1_ExportSurvivesFailures ==
    (ZipDone /\ PackBuilt) =>
        /\ response.status = HttpOk /\ response.media = "zip"
        /\ HasEntry(response.body, "pack.json")
        /\ HasEntry(response.body, "security_passport.docx")
        /\ \A i \in DOMAIN EvidenceList :
              EvidenceList[i].id \notin FailedIds =>
                 /\ Cardinality(FileEntriesOf(response.body, EvidenceList[i].id)) = 1
                 /\ \A j \in FileEntriesOf(response.body, EvidenceList[i].id) :
                       response.body[j].content[1].complete
        /\ idx = Len(EvidenceList) + 1
        /\ Len(failures) + downloaded = Len(EvidenceList)

C1_Witness ==
    /\ ZipDone /\ PackBuilt /\ Len(EvidenceList) = 2
    /\ EvidenceList[1].id \in FailedIds
    /\ EvidenceList[2].id \notin FailedIds
    /\ FileEntriesOf(response.body, EvidenceList[2].id) /= {}

TemplateKnown == req.code \in {r.code : r \in templates}

\* C4 (as claimed): an export for a template code that no template has ends in NotFound,
\* before anything is rendered, opened or requested, and returns no bytes
C4_UnknownTemplateNotFound ==
    (pc = "done" /\ ~TemplateKnown) =>
        /\ response.status = HttpNotFound
        /\ io = <<>> /\ archive = <<>> /\ response.body = <<>>

\* the stored value of the inclusion key of the request's export kind, "absent" without one
StoredInclude ==
    LET ov == get_overrides(tenant_overrides, req.tenant)
        key == IF req.kind = "zip" THEN "passport_zip_include_evidence"
               ELSE "passport_docx_include_evidence"
    IN IF key \in DOMAIN ov THEN ov[key] ELSE "absent"

NoEvidenceIn(pack) ==
    /\ pack.evidence = <<>>
    /\ \A i \in DOMAIN pack.answers : ~HasEvidenceIds(pack.answers[i])

\* C6: with the stored override passport_zip_include_evidence = false, the pack.json of
\* the archive has no evidence and no evidence_ids, the archive has no evidence/ entry,
\* and no retrieval URL is requested
C6_ZipExclusion ==
    (req.kind = "zip" /\ PackBuilt /\ StoredInclude = "False") =>
        /\ \A i \in DOMAIN archive :
              archive[i].path = FixedPath("pack.json") => NoEvidenceIn(archive[i].content[1].json)
        /\ HasEntry(archive, "pack.json")
        /\ EvidenceEntries(archive) = {}
        /\ UrlRequests = {}
        /\ pc = "done" => response.body = archive

C6_Witness ==
    /\ ZipDone /\ PackBuilt /\ StoredInclude = "False"
    /\ built.pack.evidence /= <<>>
    /\ \E i \in DOMAIN built.pack.answers : HasEvidenceIds(built.pack.answers[i])

\* C7 (as claimed): without a stored value, or with a stored value that is not a boolean,
\* the export succeeds with the Pack as built (evidence included, as under the default
\* true); only a stored false excludes evidence
C7_NonBooleanIsDefault ==
    (pc = "done" /\ PackBuilt) =>
        /\ response.status = HttpOk
        /\ StoredInclude /= "False" => OutPack = built.pack
        /\ StoredInclude = "False" => NoEvidenceIn(OutPack)

Excluded == PackBuilt /\ refs.out /= refs.built

\* C8: _apply_passport_overrides with inclusion false leaves every object of its input as
\* it was (the pack dict, its answers list, its evidence list, each AnswerView dict), and
\* applied to its own result it returns a pack equal to that result
C8_ExclusionPure ==
    Excluded =>
        LET before == alloc_pack(<<>>, built.pack).heap
            again == _apply_passport_overrides(heap, refs.out, "include" :> "False", "include")
        IN /\ SubSeq(heap, 1, Len(before)) = before
           /\ PackAt(heap, refs.built) = built.pack
           /\ NoEvidenceIn(OutPack)
           /\ PackAt(again.heap, again.ref) = OutPack
           /\ SubSeq(again.heap, 1, Len(heap)) = heap

C8_Witness ==
    /\ Excluded
    /\ built.pack.evidence /= <<>>
    /\ \E i \in DOMAIN built.pack.answers : HasEvidenceIds(built.pack.answers[i])

BadStatusLines == {i \in DOMAIN failures : failures[i].reason = "HTTPStatusError"}

\* C10: when a download ends in a non-success status, the archive still has pack.json and
\* security_passport.docx, its evidence/_FAILED_DOWNLOADS.txt has a line with the evidence
\* id and the failure reason, and it has no evidence/files entry of that item
C10_BadStatusRecorded ==
    ZipDone =>
        \A i \in BadStatusLines :
            /\ response.status = HttpOk
            /\ HasEntry(response.body, "pack.json")
            /\ HasEntry(response.body, "security_passport.docx")
            /\ \E j \in DOMAIN response.body :
                  /\ response.body[j].path = FixedPath("evidence/_FAILED_DOWNLOADS.txt")
                  /\ \E n \in DOMAIN response.body[j].content[1].lines :
                        LET line == response.body[j].content[1].lines[n]
                        IN line.id = failures[i].id /\ line.reason = "HTTPStatusError"
            /\ failures[i].id \in {EvidenceList[n].id : n \in DOMAIN EvidenceList}
            /\ FileEntriesOf(response.body, failures[i].id) = {}

C10_Witness == ZipDone /\ BadStatusLines /= {} /\ downloaded >= 1

\* positions of the evidence items of the exported pack that have no storage key
KeylessItems == {i \in DOMAIN EvidenceList : EvidenceList[i].storage_key = NoneChars}

PackJson == (CHOOSE e \in Range(archive) : e.path = FixedPath("pack.json")).content[1].json

\* C13: an evidence item without storage key that is linked to an exported answer is in
\* pack.json with a null storage_key, no retrieval URL is asked for it, it gets no
\* evidence/files entry and exactly one failure line, and every item is still processed
C13_KeylessItemSkipped ==
    (ZipDone /\ PackBuilt) =>
        \A i \in KeylessItems :
            /\ PackJson.evidence[i].id = EvidenceList[i].id
            /\ PackJson.evidence[i].storage_key = NoneChars
            /\ \A n \in UrlRequests : io[n].arg /= NoneChars
            /\ Cardinality(UrlRequests) = Cardinality(DOMAIN EvidenceList \ KeylessItems)
            /\ FileEntriesOf(response.body, EvidenceList[i].id) = {}
            /\ Cardinality({n \in DOMAIN failures : failures[n].id = EvidenceList[i].id}) = 1
            /\ \A n \in DOMAIN failures :
                  failures[n].id = EvidenceList[i].id => failures[n].reason = "missing_storage_key"
            /\ idx = Len(EvidenceList) + 1
            /\ Len(failures) + downloaded = Len(EvidenceList)

C13_Witness ==
    /\ ZipDone /\ PackBuilt /\ Len(EvidenceList) = 2
    /\ KeylessItems = {1}
    /\ downloaded = 1

\* ------------------------------------------------- schemas that change
\* the tables the migration ae3852e415da creates and drops
MigratedTables ==
    {"questionnaire_templates", "questionnaire_questions", "tenant_answers", "tenant_answer_evidence"}

\* table names a store may have: for each concept the first two candidates
SchemaNames ==
    {TemplateCandidates[1], TemplateCandidates[2], QuestionCandidates[1], QuestionCandidates[2],
     AnswerCandidates[1], AnswerCandidates[2], LinkCandidates[1], LinkCandidates[2]}

OtherTables == {"evidence_items", "tenant_overrides"}

\* the tables of a concept that can hold its rows: the candidates present, None with none
Holders(candidates, existing) ==
    IF Range(candidates) \cap existing = {} THEN {None} ELSE Range(candidates) \cap existing

\* any set of the table names; the rows of a concept are in one of its tables, and rows
\* exist only when the rows they refer to exist
InitSchema ==
    /\ tables \in {X \cup OtherTables : X \in SUBSET SchemaNames}
    /\ holder \in {h \in [{"template", "question", "answer", "link"} -> SchemaNames \cup {None}] :
                      /\ h.template \in Holders(TemplateCandidates, tables)
                      /\ h.question \in Holders(QuestionCandidates, tables)
                      /\ h.answer \in Holders(AnswerCandidates, tables)
                      /\ h.link \in Holders(LinkCandidates, tables)}
    /\ templates = IF holder.template = None THEN {} ELSE SeedTemplates
    /\ questions = IF holder.question = None \/ templates = {} THEN {} ELSE SeedQuestions
    /\ answer_columns = {"question_id"}
    /\ answers = IF holder.answer = None \/ questions = {} THEN {} ELSE {AnswerRow("T1", 1, NoKey)}
    /\ evidence_items = {EvidenceRow(1, "T1", StorageKey("T1", 1), <<"a">>)}
    /\ links = IF holder.link = None \/ answers = {} THEN {}
               ELSE {[tenant_id |-> "T1", answer_id |-> AnswerId("T1", 1), evidence_id |-> 1]}
    /\ tenant_overrides = {}
    /\ audit_events = AuditTrail(evidence_items)
    /\ objects = StoredObjects(evidence_items)
    /\ naming = NoNaming
    /\ ApiIdle
    /\ clock = 0
    /\ call = NoCall
    /\ ExportIdle

\* upgrade() of the migration: each of its tables that is missing is created, empty
upgrade ==
    /\ ~(MigratedTables \subseteq tables)
    /\ tables' = tables \cup MigratedTables
    /\ UNCHANGED <<holder, templates, questions, answers, answer_columns, links, evidence_items,
                   tenant_overrides, audit_events, objects, clock, call, exportVars, naming, apiVars>>

\* downgrade() of the migration: each of its tables that is present is dropped with its rows
downgrade ==
    /\ MigratedTables \cap tables /= {}
    /\ tables' = tables \ MigratedTables
    /\ holder' = [c \in DOMAIN holder |-> IF holder[c] \in MigratedTables THEN None ELSE holder[c]]
    /\ templates' = IF holder.template \in MigratedTables THEN {} ELSE templates
    /\ questions' = IF holder.question \in MigratedTables THEN {} ELSE questions
    /\ answers' = IF holder.answer \in MigratedTables THEN {} ELSE answers
    /\ links' = IF holder.link \in MigratedTables THEN {} ELSE links
    /\ UNCHANGED <<answer_columns, evidence_items, tenant_overrides, audit_events, objects, clock,
                   call, exportVars, naming, apiVars>>

NextSchema == Build \/ upgrade \/ downgrade

SpecSchema == InitSchema /\ [][NextSchema]_vars

NoneOf(candidates) == Range(candidates) \cap tables = {}
\* the candidate that comes first in the listed order among those present
FirstOf(candidates) ==
    candidates[CHOOSE i \in DOMAIN candidates :
                  candidates[i] \in tables /\ \A j \in 1..(i - 1) : candidates[j] \notin tables]
SchemaMismatch(candidates) ==
    [status |-> "error", error |-> "RuntimeError", candidates |-> candidates, existing |-> tables]

\* C14: each call resolves the tables anew against the tables present at that moment: the
\* first concept (template, question, answer) without a present candidate ends the call
\* with an error naming all its candidates and all tables present, and no Pack;
\* otherwise the call reads the first present candidate of each concept, so it returns a
\* Pack exactly when that template table holds the requested code, and answers only when
\* the first present question and answer tables hold them
C14_PickTableFirstPresent ==
    [][call' /= call =>
        LET r == call'.result
        IN /\ NoneOf(TemplateCandidates) => r = SchemaMismatch(TemplateCandidates)
           /\ (~NoneOf(TemplateCandidates) /\ NoneOf(QuestionCandidates))
                 => r = SchemaMismatch(QuestionCandidates)
           /\ (~NoneOf(TemplateCandidates) /\ ~NoneOf(QuestionCandidates) /\ NoneOf(AnswerCandidates))
                 => r = SchemaMismatch(AnswerCandidates)
           /\ (~NoneOf(TemplateCandidates) /\ ~NoneOf(QuestionCandidates) /\ ~NoneOf(AnswerCandidates))
                 => /\ r.status = "pack" <=>
                          /\ FirstOf(TemplateCandidates) = holder.template
                          /\ call'.code \in {t.code : t \in templates}
                    /\ r.status = "error" => r.error = "ValueError"
                    /\ (r.status = "pack" /\ r.pack.answers /= <<>>) =>
                          /\ FirstOf(QuestionCandidates) = holder.question
                          /\ FirstOf(AnswerCandidates) = holder.answer]_vars

\* a call that ends in a schema mismatch after a call that returned a Pack: a table
\* disappeared between the two
C14_Witness ==
    /\ call.prev = "pack"
    /\ call.result.status = "error" /\ call.result.error = "RuntimeError"

\* the store with the rows of the tenants other than t rewritten: their answers and
\* evidence items updated in every content column, their link rows deleted
Rewritten(a) == [a EXCEPT !.answer_text = NoText, !.updated_at = 0]
Retitled(e) == [e EXCEPT !.title = [title |-> NoId], !.original_filename = NoneChars]
OthersChanged(t) ==
    [Store EXCEPT !.answers = {IF a.tenant_id = t THEN a ELSE Rewritten(a) : a \in answers},
                  !.evidence_items = {IF e.tenant_id = t THEN e ELSE Retitled(e) : e \in evidence_items},
                  !.links = {l \in links : l.tenant_id = t}]

\* some order of the scans makes the call on store S end as the last call did, with the
\* same Pack except for generated_at
SameResultOn(S) ==
    \E ansScan \in Orderings(S.answers), linkScan \in Orderings(S.links),
       evScan \in Orderings(S.evidence_items) :
        LET Same(r) == /\ r.status = call.result.status
                       /\ r.status = "pack" => SameExceptGeneratedAt(r.pack, CallPack)
        IN Same(_build_pack_via_db(S, call.tenant, call.code, 0, ansScan, linkScan, evScan))

\* C15: the Pack built for tenant T has answer text only of answers of T and
\* EvidenceViews only of evidence items of T, and the call ends the same way, with the
\* same Pack except for generated_at, on the store whose rows of other tenants differ
C15_TenantIsolation ==
    call /= NoCall =>
        /\ Returned =>
              /\ \A i \in DOMAIN CallPack.answers :
                    \E a \in answers : a.tenant_id = call.tenant
                                        /\ a.answer_text = CallPack.answers[i].answer_text
              /\ \A i \in DOMAIN CallPack.evidence :
                    \E e \in evidence_items : e.tenant_id = call.tenant
                                               /\ Str(e.id) = CallPack.evidence[i].id
        /\ SameResultOn(OthersChanged(call.tenant))

C15_Witness ==
    /\ Returned /\ CallPack.evidence /= <<>>
    /\ \E a \in answers : a.tenant_id /= call.tenant
    /\ \E l \in links, e \in evidence_items :
          l.tenant_id = call.tenant /\ l.evidence_id = e.id /\ e.tenant_id /= call.tenant

\* C16: no step of an export request changes a row of a table (answers, evidence
\* items, links, tenant overrides, audit events) or an object of the bucket, whether the
\* export succeeds, records download failures or fails
C16_ExportsWriteNothing ==
    [][(pc' /= pc \/ idx' /= idx) => UNCHANGED storeVars]_vars

\* a zip export that ended with a failed and a delivered download, and the store as it
\* was before the request
C16_Witness ==
    /\ ZipDone /\ response.status = HttpOk
    /\ failures /= <<>> /\ downloaded >= 1
    /\ audit_events = AuditTrail(evidence_items)
    /\ objects = StoredObjects(evidence_items)

FileEntries(a) == {i \in DOMAIN a : a[i].path.fixed = "evidence/files/"}
\* position in the pack's evidence list of the item that owns an archive entry
PositionOf(owner) == CHOOSE n \in DOMAIN EvidenceList : EvidenceList[n].id = owner

\* C17: in the archive of a zip export, at every moment of its writing, pack.json is the
\* first entry and security_passport.docx the second; with a non-empty evidence list
\* README.txt and _meta.txt (count = number of evidence items) come next, before every
\* evidence/files entry; the evidence/files entries follow the order of the evidence
\* list; and _FAILED_DOWNLOADS.txt, when present, is the last entry
C17_EntryOrder ==
    (req.kind = "zip" /\ PackBuilt) =>
        /\ Len(archive) >= 2
        /\ archive[1].path = FixedPath("pack.json")
        /\ archive[2].path = FixedPath("security_passport.docx")
        /\ EvidenceList = <<>> => Len(archive) = 2
        /\ EvidenceList /= <<>> =>
              /\ Len(archive) >= 4
              /\ archive[3].path = FixedPath("evidence/README.txt")
              /\ archive[4].path = FixedPath("evidence/_meta.txt")
              /\ archive[4].content[1].count = Len(EvidenceList)
        /\ \A i \in FileEntries(archive) : i > 4
        /\ \A i, j \in FileEntries(archive) :
              i < j => PositionOf(archive[i].owner) < PositionOf(archive[j].owner)
        /\ \A i \in DOMAIN archive :
              archive[i].path = FixedPath("evidence/_FAILED_DOWNLOADS.txt") => i = Len(archive)
        /\ \A i \in DOMAIN archive :
              i > 4 => \/ i \in FileEntries(archive)
                       \/ archive[i].path = FixedPath("evidence/_FAILED_DOWNLOADS.txt")

C17_Witness ==
    /\ ZipDone /\ PackBuilt
    /\ Cardinality(FileEntries(archive)) = 2
    /\ HasEntry(archive, "evidence/_FAILED_DOWNLOADS.txt")

\* positions of the evidence items without a complete evidence/files entry in the archive
FailedItems ==
    {i \in DOMAIN EvidenceList :
        ~\E j \in FileEntriesOf(archive, EvidenceList[i].id) : archive[j].content[1].complete}

FailedEntryLines ==
    (CHOOSE e \in Range(response.body) :
        e.path = FixedPath("evidence/_FAILED_DOWNLOADS.txt")).content[1].lines

\* the failed-downloads entry is there exactly when an item failed, with one line per
\* failed item
FailedEntryPerItem ==
    /\ HasEntry(response.body, "evidence/_FAILED_DOWNLOADS.txt") <=> FailedItems /= {}
    /\ HasEntry(response.body, "evidence/_FAILED_DOWNLOADS.txt") =>
          /\ Len(FailedEntryLines) = Cardinality(FailedItems)
          /\ \A i \in FailedItems :
                Cardinality({n \in DOMAIN FailedEntryLines :
                                FailedEntryLines[n].id = EvidenceList[i].id}) = 1

\* C18 (as claimed): the archive has the failed-downloads entry exactly when an evidence
\* item failed, the entry has one line per failed item, and every line has the three
\* fields evidence id, filename and failure reason, a missing storage key included
C18_FailureLines ==
    (ZipDone /\ PackBuilt) =>
        /\ FailedEntryPerItem
        /\ HasEntry(response.body, "evidence/_FAILED_DOWNLOADS.txt") =>
              \A n \in DOMAIN FailedEntryLines : FailedEntryLines[n].fields = 3

\* a document request answered with the rendered document
DocxDone == pc = "done" /\ req.kind = "docx" /\ response.status = HttpOk

\* the positions of the section headings and of the page boundaries in a document
Sections(doc) == {n \in DOMAIN doc : doc[n].kind = "heading2"}
PageBoundaries(doc) == {n \in DOMAIN doc : doc[n].kind = "page_break"}

\* the title of the section of an AnswerView (line 37 of the renderer)
SectionTitle(a) == AnswerBlocks(a)[1].text

\* the n-th smallest member of a set of positions
RECURSIVE Nth(_, _)
Nth(S, n) ==
    LET m == CHOOSE x \in S : \A y \in S : x <= y
    IN IF n = 1 THEN m ELSE Nth(S \ {m}, n - 1)

\* the header block, then exactly one section per AnswerView in Pack order among the
\* first k sections
AnswerPart(doc, pack) ==
    /\ doc[1].kind = "heading1"
    /\ Cardinality(Sections(doc)) >= Len(pack.answers)
    /\ \A i \in DOMAIN pack.answers :
          /\ Nth(Sections(doc), i) > 1
          /\ doc[Nth(Sections(doc), i)].text = SectionTitle(pack.answers[i])

\* C19 (as claimed): the document has a header block, then one section per AnswerView in
\* Pack order, and when the evidence list is non-empty a page boundary followed by one
\* section per EvidenceView; when the evidence list is empty there is no evidence part
C19_DocumentStructure ==
    DocxDone =>
        /\ AnswerPart(response.body, OutPack)
        /\ IF OutPack.evidence = <<>>
           THEN /\ Cardinality(Sections(response.body)) = Len(OutPack.answers)
                /\ PageBoundaries(response.body) = {}
           ELSE \E b \in PageBoundaries(response.body) :
                   /\ PageBoundaries(response.body) = {b}
                   /\ Cardinality({n \in Sections(response.body) : n < b})
                         = Len(OutPack.answers)
                   /\ Cardinality({n \in Sections(response.body) : n > b})
                         = Len(OutPack.evidence)

\* the evidence items of the calling tenant that no link row of the tenant ties to an
\* answer of the exported template
UnrelatedItems ==
    {e \in evidence_items :
        /\ e.tenant_id = call.tenant
        /\ ~\E l \in links : /\ l.tenant_id = call.tenant /\ l.evidence_id = e.id
                              /\ \E a \in ExportedAnswers : a.id = l.answer_id}

\* C20: every EvidenceView of a returned Pack has an id listed in the evidence_ids of
\* some AnswerView of the same Pack, and no evidence item of the tenant that is linked
\* only to answers of other templates, or to no answer, is in the evidence list
C20_EvidenceIsReferenced ==
    Returned =>
        /\ \A i \in DOMAIN CallPack.evidence :
              CallPack.evidence[i].id \in ReferencedIds(CallPack)
        /\ \A e \in UnrelatedItems : Occurrences(CallPack, Str(e.id)) = {}

C20_Witness ==
    /\ Returned /\ CallPack.evidence /= <<>>
    /\ \E e \in UnrelatedItems : \E l \in links : l.evidence_id = e.id /\ l.tenant_id = call.tenant

\* ------------------------------------------------ answer tables with a key column
\* rows of an answer table that has a question_key column, with or without a nullable
\* question_id column: any question id or NULL, any key or none
LegacyAnswerSets(cols) ==
    LET Row(id, t, qid, qkey) ==
            [id |-> id, tenant_id |-> t, question_id |-> qid, question_key |-> qkey,
             answer_text |-> [text |-> id], updated_at |-> 1]
        QIds == IF "question_id" \in cols THEN {NoId} \cup {qu.id : qu \in SeedQuestions}
                ELSE {NoId}
        QKeys == {NoKey} \cup {qu.key : qu \in SeedQuestions}
        Shapes == [t : Tenants, qid : QIds, qkey : QKeys]
    IN {{Row(id, f[id].t, f[id].qid, f[id].qkey) : id \in ids} :
            ids \in SUBSET (1..MaxAnswers), f \in [1..MaxAnswers -> Shapes]}

InitLegacy ==
    /\ tables = DefaultTables /\ holder = DefaultHolder
    /\ templates = SeedTemplates /\ questions = SeedQuestions
    /\ answer_columns \in {{"question_id", "question_key"}, {"question_key"}}
    /\ answers \in LegacyAnswerSets(answer_columns)
    /\ evidence_items = {} /\ links = {} /\ tenant_overrides = {}
    /\ audit_events = {} /\ objects = {}
    /\ naming = NoNaming
    /\ ApiIdle
    /\ clock = 0
    /\ call = NoCall
    /\ ExportIdle

SpecLegacy == InitLegacy /\ [][NextPack]_vars

\* the questions of the template of the last call
CallQuestions == {qu \in questions : qu.template_id \in CallTemplateIds}

\* the answers of the calling tenant that reference the question by question_id
IdentityAnswers(qu) ==
    {a \in answers : /\ a.tenant_id = call.tenant
                      /\ "question_id" \in answer_columns /\ a.question_id = qu.id}

\* the answers of the calling tenant that match the question by question_key only
KeyAnswers(qu) ==
    {a \in answers : /\ a.tenant_id = call.tenant
                      /\ "question_key" \in answer_columns /\ a.question_key = qu.key
                      /\ a \notin IdentityAnswers(qu)}

\* the positions of the AnswerViews of the question in the Pack of the last call
ViewsOf(qu) == {i \in DOMAIN CallPack.answers : CallPack.answers[i].question_prompt = qu.prompt}

UsedBy(qu, A) == \E i \in ViewsOf(qu) : \E a \in A : CallPack.answers[i].answer_text = a.answer_text

\* C21: for each question of the template, an answer that references the question by
\* question_id is the one shown when there is one, and an answer that matches by
\* question_key only is shown only when no answer references the question by question_id
C21_IdentityPreferred ==
    Returned =>
        \A qu \in CallQuestions :
            /\ IdentityAnswers(qu) /= {} =>
                  /\ ViewsOf(qu) /= {}
                  /\ \A i \in ViewsOf(qu) : \E a \in IdentityAnswers(qu) :
                        CallPack.answers[i].answer_text = a.answer_text
            /\ UsedBy(qu, KeyAnswers(qu)) => IdentityAnswers(qu) = {}

\* both kinds of answer are loaded for one question and competing
C21_Witness ==
    /\ Returned
    /\ \E qu \in CallQuestions :
          /\ IdentityAnswers(qu) /= {}
          /\ \E a \in KeyAnswers(qu) : \E q2 \in CallQuestions : a.question_id = q2.id
          /\ UsedBy(qu, IdentityAnswers(qu))

\* the questions of the template for which the calling tenant has an answer
AnsweredQuestions == {qu \in CallQuestions : IdentityAnswers(qu) /= {}}

ALLOWED_OVERRIDE_KEYS ==
    {"ui_theme", "passport_zip_include_evidence", "passport_docx_include_evidence",
     "evidence_retention_days"}

RESERVED_KEYS ==
    {"jwt_secret_key", "postgres_password", "postgres_user", "postgres_host", "postgres_db",
     "s3_secret_key", "s3_access_key", "redis_url"}

\* isinstance(v, int): an int, or a bool, which Python makes a subclass of int
IsInt(v) == v \in {"True", "False", "0", "1", "30", "4000"}
\* the number a value counts as in a comparison
IntOf(v) == CASE v \in {"True", "1"} -> 1 [] v \in {"False", "0"} -> 0
              [] v = "30" -> 30 [] v = "4000" -> 4000

\* a request body {"overrides": null} or {"overrides": {...}}
NullBody == [null |-> TRUE, d |-> EmptyDict]
DictBody(d) == [null |-> FALSE, d |-> d]

\* validate_overrides(input_settings): the entries that pass, the others silently dropped
validate_overrides(input_settings) ==
    LET d == input_settings.d
        Passes(k) ==
            /\ k \notin RESERVED_KEYS
            /\ k \in ALLOWED_OVERRIDE_KEYS
            /\ k = "ui_theme" => d[k] \in {"'dark'", "'light'"}
            /\ k \in {"passport_zip_include_evidence", "passport_docx_include_evidence"}
                  => IsBool(d[k])
            /\ k = "evidence_retention_days"
                  => IsInt(d[k]) /\ ~(IntOf(d[k]) < 1 \/ IntOf(d[k]) > 3650)
    IN IF input_settings.null THEN EmptyDict
       ELSE [k \in {x \in DOMAIN d : Passes(x)} |-> d[k]]

\* {**existing, **safe_settings}
DictMerge(existing, safe_settings) ==
    [k \in DOMAIN existing \cup DOMAIN safe_settings |->
        IF k \in DOMAIN safe_settings THEN safe_settings[k] ELSE existing[k]]

ALLOWED_RETENTION_KEYS == {"audit_days", "evidence_days", "passport_days"}

\* _validate_settings(payload): the patch, or the 400 that HTTPException carries
\* (the only dict under "retention" in the payloads considered is the retention group)
validate_settings(payload) ==
    LET r == payload["retention"]
        BadRetention ==
            \E k \in DOMAIN r : \/ k \notin ALLOWED_RETENTION_KEYS
                                 \/ ~IsInt(r[k])
                                 \/ IntOf(r[k]) < 1 \/ IntOf(r[k]) > 3650
    IN IF "retention" \in DOMAIN payload /\ BadRetention THEN [ok |-> FALSE]
       ELSE IF DOMAIN payload \ {"retention"} /= {} THEN [ok |-> FALSE]
       ELSE [ok |-> TRUE, patch |-> payload]

\* _deep_merge(base, override) for a patch of _validate_settings: the key "retention"
\* holds a dict in both exactly when both have it (no other request stores that key)
deep_merge(base, override) ==
    [k \in DOMAIN base \cup DOMAIN override |->
        IF k \notin DOMAIN override THEN base[k]
        ELSE IF k = "retention" /\ k \in DOMAIN base THEN DictMerge(base[k], override[k])
        ELSE override[k]]

\* mutant of on_conflict_do_update: a plain INSERT on a table without the unique index
plain_insert(rows, id, tenant_id, settings) ==
    rows \cup {[id |-> id, tenant_id |-> tenant_id, settings |-> settings]}

\* pg_insert(t).values(...).on_conflict_do_update(index_elements=["tenant_id"], ...): the
\* row of the tenant gets the settings, a row is inserted when the tenant has none
on_conflict_do_update(rows, id, tenant_id, settings) ==
    IF \E r \in rows : r.tenant_id = tenant_id
    THEN {IF r.tenant_id = tenant_id THEN [r EXCEPT !.settings = settings] ELSE r : r \in rows}
    ELSE rows \cup {[id |-> id, tenant_id |-> tenant_id, settings |-> settings]}

\* bodies of PUT and PATCH /tenants/me/overrides: null, or one key with a value that
\* passes or fails its validation, a reserved key, an unknown key
OverrideBodies ==
    {NullBody}
    \cup {DictBody(kv[1] :> kv[2]) :
            kv \in {<<"ui_theme", "'dark'">>, <<"ui_theme", "'blue'">>,
                    <<"passport_zip_include_evidence", "False">>,
                    <<"passport_zip_include_evidence", "'yes'">>,
                    <<"evidence_retention_days", "30">>,
                    <<"evidence_retention_days", "4000">>,
                    <<"evidence_retention_days", "True">>,
                    <<"jwt_secret_key", "'yes'">>, <<"retention", "1">>}}

\* bodies of PUT /tenant/settings
SettingsBodies ==
    {EmptyDict, "retention" :> ("evidence_days" :> "30"), "retention" :> ("audit_days" :> "1"),
     "retention" :> ("audit_days" :> "4000"), "retention" :> ("other_days" :> "30"),
     "ui_theme" :> "'dark'"}

\* the next request: requests are numbered in the order of their arrival
NextRequest == CHOOSE i \in Requests : writers[i].pc = "none" /\ \A j \in 1..(i - 1) : writers[j].pc /= "none"

\* upsert_overrides up to its SELECT: validation, then get_overrides
upsert_read(tenant_id, body, merge) ==
    /\ \E i \in Requests : writers[i].pc = "none"
    /\ writers' = [writers EXCEPT ![NextRequest] =
                      [pc |-> "read", op |-> IF merge THEN "merge" ELSE "replace",
                       tenant |-> tenant_id, body |-> body.d,
                       new |-> validate_overrides(body),
                       existing |-> get_overrides(tenant_overrides, tenant_id)]]
    /\ UNCHANGED <<storeVars, clock, call, exportVars, naming, api>>

\* PUT /tenants/me/overrides, up to the SELECT of upsert_overrides
replace_overrides == \E t \in Tenants, body \in OverrideBodies : upsert_read(t, body, FALSE)

\* PATCH /tenants/me/overrides, up to the SELECT of upsert_overrides
merge_overrides == \E t \in Tenants, body \in OverrideBodies : upsert_read(t, body, TRUE)

\* the rest of the two handlers: the INSERT ... ON CONFLICT of upsert_overrides with the
\* map computed from what was read, write_audit, commit.  The statement takes the row
\* lock until the commit, so the three are one step for every other request.
upsert_write ==
    \E i \in Requests :
        /\ writers[i].pc = "read" /\ writers[i].op \in {"replace", "merge"}
        /\ LET w == writers[i]
               Commit(merged) ==
                   /\ tenant_overrides' = on_conflict_do_update(tenant_overrides, i, w.tenant, merged)
                   /\ writers' = [writers EXCEPT ![i] =
                                     [pc |-> "done", op |-> w.op, tenant |-> w.tenant,
                                      body |-> w.body, status |-> HttpOk, stored |-> merged]]
           IN Commit(IF w.op = "merge" THEN DictMerge(w.existing, w.new) ELSE w.new)
        /\ audit_events' = audit_events
                             \cup {AuditEvent(writers[i].tenant, "tenant.overrides." \o writers[i].op,
                                              writers[i].tenant)}
        /\ UNCHANGED <<tables, holder, templates, questions, answers, answer_columns, links,
                       evidence_items, objects, clock, call, exportVars, naming, api>>

HttpBadRequest == 400

\* PUT /tenant/settings up to its SELECT: _validate_settings, which ends the request with
\* 400, or the read of the current settings
update_settings ==
    /\ \E i \in Requests : writers[i].pc = "none"
    /\ \E t \in Tenants, body \in SettingsBodies :
          LET Begin(v) ==
                  writers' = [writers EXCEPT ![NextRequest] =
                      IF v.ok
                      THEN [pc |-> "read", op |-> "settings", tenant |-> t, body |-> body,
                            new |-> v.patch, existing |-> get_overrides(tenant_overrides, t)]
                      ELSE [pc |-> "done", op |-> "settings", tenant |-> t, body |-> body,
                            status |-> HttpBadRequest, stored |-> EmptyDict]]
          IN Begin(validate_settings(body))
    /\ UNCHANGED <<storeVars, clock, call, exportVars, naming, api>>

\* the rest of update_settings: the INSERT ... ON CONFLICT with the deep merge of what
\* was read and the patch, write_audit, commit
update_settings_write ==
    \E i \in Requests :
        /\ writers[i].pc = "read" /\ writers[i].op = "settings"
        /\ LET w == writers[i]
               Commit(new_settings) ==
                   /\ tenant_overrides' = on_conflict_do_update(tenant_overrides, i, w.tenant, new_settings)
                   /\ writers' = [writers EXCEPT ![i] =
                                     [pc |-> "done", op |-> w.op, tenant |-> w.tenant,
                                      body |-> w.body, status |-> HttpOk, stored |-> new_settings]]
           IN Commit(deep_merge(w.existing, w.new))
        /\ audit_events' = audit_events
                             \cup {AuditEvent(writers[i].tenant, "tenant.settings.update",
                                              writers[i].tenant)}
        /\ UNCHANGED <<tables, holder, templates, questions, answers, answer_columns, links,
                       evidence_items, objects, clock, call, exportVars, naming, api>>

\* a migrated store without rows
InitOverrides ==
    /\ tables = DefaultTables /\ holder = DefaultHolder
    /\ templates = SeedTemplates /\ questions = SeedQuestions
    /\ answer_columns = {"question_id"}
    /\ answers = {} /\ evidence_items = {} /\ links = {} /\ tenant_overrides = {}
    /\ audit_events = {} /\ objects = {}
    /\ naming = NoNaming
    /\ ApiIdle
    /\ clock = 0
    /\ call = NoCall
    /\ ExportIdle

NextOverrides ==
    replace_overrides \/ merge_overrides \/ upsert_write \/ update_settings \/ update_settings_write

SpecOverrides == InitOverrides /\ [][NextOverrides]_vars

\* C23: the tenant_overrides table holds at most one row per tenant, whatever requests
\* wrote to it and however their reads and writes interleaved
C23_OneRowPerTenant ==
    \A r1, r2 \in tenant_overrides : r1.tenant_id = r2.tenant_id => r1 = r2

\* a tenant whose row was inserted by one request and written again by another, next
\* to the row of another tenant
C23_Witness ==
    \E i, j \in Requests :
        /\ i /= j
        /\ writers[i].pc = "done" /\ writers[j].pc = "done"
        /\ writers[i].status = HttpOk /\ writers[j].status = HttpOk
        /\ writers[i].tenant = writers[j].tenant
        /\ \E r \in tenant_overrides : r.tenant_id = writers[i].tenant /\ r.id = i
        /\ \E r \in tenant_overrides : r.tenant_id /= writers[i].tenant

\* a value the allow-list accepts for the key: a theme, a boolean, a number of days
\* that is an integer from 1 to 3650
ValidFor(k, v) ==
    /\ k = "ui_theme" => v \in {"'dark'", "'light'"}
    /\ k \in {"passport_zip_include_evidence", "passport_docx_include_evidence"} => IsBool(v)
    /\ k = "evidence_retention_days" => IsInt(v) /\ ~IsBool(v) /\ IntOf(v) >= 1 /\ IntOf(v) <= 3650

StoredKeysAllowed == \A r \in tenant_overrides : DOMAIN r.settings \subseteq ALLOWED_OVERRIDE_KEYS

StoredValuesValid ==
    \A r \in tenant_overrides :
        \A k \in DOMAIN r.settings \cap ALLOWED_OVERRIDE_KEYS : ValidFor(k, r.settings[k])

\* C24 (as claimed): every key of a stored settings map is in the allow-list and has a
\* value valid for it, after any sequence of override-writing requests
C24_StoredSettingsAllowed == StoredKeysAllowed /\ StoredValuesValid

\* ------------------------------------------------------------ attach_evidence
\* mutant of add_link: the link is added without looking for an existing one
add_link_always(rows, found, link) == rows \cup {link}

\* "if link is None: session.add(link)": the table after the handler
add_link(rows, found, link) == IF found = {} THEN rows \cup {link} ELSE rows

\* POST /questionnaires/answers/{answer_id}/evidence
attach_evidence ==
    /\ \E t \in Tenants, aid \in 1..(2 * Cardinality(SeedQuestions)), eid \in 1..(MaxEvidence + 1) :
          LET ans == {a \in answers : a.id = aid /\ a.tenant_id = t}
              ev == {e \in evidence_items : e.id = eid /\ e.tenant_id = t}
              found == {l \in links : l.answer_id = aid /\ l.evidence_id = eid}
              link == [id |-> clock + 1, tenant_id |-> t, answer_id |-> aid, evidence_id |-> eid,
                       created_at |-> clock + 1]
              Call(status) == api' = [op |-> "attach", tenant |-> t, answer_id |-> aid,
                                      evidence_id |-> eid, status |-> status,
                                      linked |-> ans /= {} /\ ev /= {} /\ found /= {}]
          IN IF ans = {} \/ ev = {}
             THEN Call(HttpNotFound) /\ UNCHANGED <<links, audit_events, clock>>
             ELSE IF add_link(links, found, link) = links
             THEN Call(HttpOk) /\ UNCHANGED <<links, audit_events, clock>>
             ELSE /\ clock < MaxTime
                  /\ Call(HttpOk)
                  /\ links' = add_link(links, found, link)
                  /\ audit_events' = audit_events \cup {AuditEvent(t, "answer.attach_evidence", aid)}
                  /\ clock' = clock + 1
    /\ UNCHANGED <<tables, holder, templates, questions, answers, answer_columns, evidence_items,
                   tenant_overrides, objects, call, exportVars, naming, writers>>

\* answers and evidence items of both tenants, no link yet
InitAttach ==
    /\ tables = DefaultTables /\ holder = DefaultHolder
    /\ templates = SeedTemplates /\ questions = SeedQuestions
    /\ answer_columns = {"question_id"}
    /\ answers \in AnswerSets
    /\ evidence_items \in EvidenceSets
    /\ links = {} /\ tenant_overrides = {}
    /\ audit_events = AuditTrail(evidence_items)
    /\ objects = StoredObjects(evidence_items)
    /\ naming = NoNaming
    /\ ApiIdle
    /\ clock = 0
    /\ call = NoCall
    /\ ExportIdle

NextAttach == attach_evidence

SpecAttach == InitAttach /\ [][NextAttach]_vars

OneLinkPerPair ==
    \A l1, l2 \in links :
        (l1.answer_id = l2.answer_id /\ l1.evidence_id = l2.evidence_id) => l1 = l2

OwnedByLinker ==
    \A l \in links : /\ \E a \in answers : a.id = l.answer_id /\ a.tenant_id = l.tenant_id
                      /\ \E e \in evidence_items : e.id = l.evidence_id /\ e.tenant_id = l.tenant_id

\* a call of attach_evidence for a pair not both of the caller's tenant ends with
\* not-found; that call, and a call for a pair already linked, which ends with ok,
\* leave the link table as it is
AttachStep ==
    LET Owned == /\ \E a \in answers : a.id = api'.answer_id /\ a.tenant_id = api'.tenant
                 /\ \E e \in evidence_items : e.id = api'.evidence_id /\ e.tenant_id = api'.tenant
        Linked == \E l \in links : l.answer_id = api'.answer_id /\ l.evidence_id = api'.evidence_id
    IN api' /= api =>
         /\ ~Owned => api'.status = HttpNotFound /\ links' = links
         /\ (Owned /\ Linked) => api'.status = HttpOk /\ links' = links
         /\ Owned => api'.status = HttpOk

\* C25: after any sequence of attach_evidence calls the link table holds at most one row
\* per (answer, evidence) pair; a pair already linked gets no second row and the call
\* returns ok; a link exists only between an answer and an evidence item of the tenant
\* that attached them, any other call ending with not-found and no change of the table
C25_AttachOncePerPair == [](OneLinkPerPair /\ OwnedByLinker) /\ [][AttachStep]_vars

\* a linked pair was attached again
C25_Witness ==
    /\ api.op = "attach" /\ api.status = HttpOk /\ api.linked
    /\ Cardinality({l \in links : l.answer_id = api.answer_id /\ l.evidence_id = api.evidence_id}) = 1

\* C26 (as claimed): an evidence item with a line in the failure list has no
\* evidence/files entry in the returned archive, whether it failed before the request,
\* on the status, or after part of the body was written to its entry
C26_NoEntryForFailedItem ==
    (ZipDone /\ PackBuilt /\ response.status = HttpOk) =>
        \A n \in DOMAIN failures : FileEntriesOf(response.body, failures[n].id) = {}

\* C27 (as claimed): the evidence/files entries written for two distinct evidence items
\* that both downloaded have distinct paths, and no archive holds two entries with the
\* same path
C27_DistinctEntryPaths ==
    (ZipDone /\ PackBuilt /\ response.status = HttpOk) =>
        \A i, j \in DOMAIN response.body :
            i /= j => response.body[i].path /= response.body[j].path

\* the entries of the body of a finished override request that passed validation
Accepted(w) == validate_overrides(DictBody(w.body))

\* requests i and j are the only ones made, both are committed merge requests of one
\* tenant, and each set an allowed key that the other did not
TwoMergesDone(i, j) ==
    /\ i /= j
    /\ \A k \in Requests \ {i, j} : writers[k].pc = "none"
    /\ writers[i].pc = "done" /\ writers[j].pc = "done"
    /\ writers[i].op = "merge" /\ writers[j].op = "merge"
    /\ writers[i].tenant = writers[j].tenant
    /\ DOMAIN Accepted(writers[i]) /= {} /\ DOMAIN Accepted(writers[j]) /= {}
    /\ DOMAIN Accepted(writers[i]) \cap DOMAIN Accepted(writers[j]) = {}

\* C28 (as claimed): once two merge requests of one tenant that set different allowed
\* keys have both committed, the stored settings map holds both keys with the submitted
\* values, however their reads and writes interleaved
C28_NoLostUpdate ==
    \A i, j \in Requests :
        TwoMergesDone(i, j) =>
            LET Both(stored) ==
                    \A w \in {writers[i], writers[j]} :
                        \A k \in DOMAIN Accepted(w) : k \in DOMAIN stored /\ stored[k] = Accepted(w)[k]
            IN Both(get_overrides(tenant_overrides, writers[i].tenant))

\* the failure lines recorded for an evidence id
LinesOf(id) == {n \in DOMAIN failures : failures[n].id = id}

\* every item of the exported pack either downloaded or has exactly one failure line,
\* and the counter and the failure list add up to the number of items
AccountedOnce ==
    /\ downloaded + Len(failures) = Len(EvidenceList)
    /\ \A n \in DOMAIN EvidenceList :
          LET Complete(id) == {j \in FileEntriesOf(response.body, id) :
                                 response.body[j].content[1].complete}
              Once(id) == \/ Cardinality(Complete(id)) = 1 /\ LinesOf(id) = {}
                          \/ Complete(id) = {} /\ Cardinality(LinesOf(id)) = 1
          IN Once(EvidenceList[n].id)

\* C29 (as claimed): when export_passport_zip finishes, every evidence item of the pack
\* is accounted for exactly once, downloaded + number of failure lines = number of
\* items, and the number of evidence/files entries written equals downloaded
C29_DownloadsAccounted ==
    (ZipDone /\ PackBuilt /\ response.status = HttpOk) =>
        /\ AccountedOnce
        /\ Cardinality(FileEntries(response.body)) = downloaded

\* ---------------------------------------------------------------- upload_file
\* file contents: empty, or one of two contents; their digests
Contents == {"", "x", "y"}
Sha256(data) == IF data = "x" THEN "h" ELSE "g"

\* the bucket is followed up to this number of objects
MaxObjects == 3

\* f"{ctx.tenant_id}/{eid}/{sha256}"
storage_key_of(tenant_id, eid, sha256) == <<tenant_id, "/", Digit(eid), "/", sha256>>

\* POST /evidence/{evidence_id}/upload.  put_ok: whether s3.put_object returned; when it
\* raises the request ends with a server error before the session is opened.
upload_file ==
    /\ \E t \in Tenants, eid \in 1..(MaxEvidence + 1), data \in Contents,
          filename \in UploadNames, put_ok \in BOOLEAN :
          LET key == storage_key_of(t, eid, Sha256(data))
              item == {e \in evidence_items : e.id = eid /\ e.tenant_id = t}
              Call(status) == api' = [op |-> "upload", tenant |-> t, evidence_id |-> eid,
                                      key |-> key, status |-> status]
          IN IF data = ""
             THEN Call(HttpBadRequest) /\ UNCHANGED <<objects, evidence_items, audit_events, clock>>
             ELSE IF ~put_ok
             THEN Call(HttpServerError) /\ UNCHANGED <<objects, evidence_items, audit_events, clock>>
             ELSE /\ Cardinality(objects \cup {key}) <= MaxObjects
                  /\ objects' = objects \cup {key}
                  /\ IF item = {}
                     THEN Call(HttpNotFound) /\ UNCHANGED <<evidence_items, audit_events, clock>>
                     ELSE /\ clock < MaxTime
                          /\ Call(HttpOk)
                          /\ evidence_items' =
                                {IF e \in item
                                 THEN [e EXCEPT !.storage_key = key, !.original_filename = filename]
                                 ELSE e : e \in evidence_items}
                          /\ audit_events' = audit_events \cup {AuditEvent(t, "evidence.upload", eid)}
                          /\ clock' = clock + 1
    /\ UNCHANGED <<tables, holder, templates, questions, answers, answer_columns, links,
                   tenant_overrides, call, exportVars, naming, writers>>

\* evidence items of one or two tenants, uploaded or not, and the objects of the uploads
InitUpload ==
    /\ tables = DefaultTables /\ holder = DefaultHolder
    /\ templates = SeedTemplates /\ questions = SeedQuestions
    /\ answer_columns = {"question_id"}
    /\ answers = {} /\ links = {} /\ tenant_overrides = {}
    /\ evidence_items \in EvidenceSets \cup EvidenceSetsZip
    /\ audit_events = AuditTrail(evidence_items)
    /\ objects = StoredObjects(evidence_items)
    /\ naming = NoNaming
    /\ ApiIdle
    /\ clock = 0
    /\ call = NoCall
    /\ ExportIdle

NextUpload == upload_file

SpecUpload == InitUpload /\ [][NextUpload]_vars

\* every object of the bucket is under a key that an evidence row of the tenant named in
\* the key records
ObjectsRecorded ==
    \A k \in objects : \E e \in evidence_items : e.storage_key = k /\ e.tenant_id = k[1]

\* an upload for an evidence id that is no row of the caller's tenant ends with not-found
\* and changes neither the bucket nor the evidence rows
UploadStep ==
    LET Owned == \E e \in evidence_items : e.id = api'.evidence_id /\ e.tenant_id = api'.tenant
    IN (api' /= api /\ ~Owned /\ api'.status \notin {HttpBadRequest, HttpServerError}) =>
          /\ api'.status = HttpNotFound
          /\ objects' = objects
          /\ evidence_items' = evidence_items

\* C30 (as claimed): upload_file for an evidence id that does not exist or belongs to
\* another tenant ends with not-found and leaves the bucket and the evidence rows as
\* they were, and an object exists under a storage key only if an evidence row of that
\* tenant records the key
C30_UploadNotFoundWritesNothing == []ObjectsRecorded /\ [][UploadStep]_vars

====
